---- MODULE Spec2Model ----
(***************************************************************************)
(* Model of the dependency injector of klmitch/nelson (package injector):  *)
(* the registry of injectable objects (Objects), the type-specific         *)
(* vivifiers (Vivifiers), the fallback vivifier (Fallback) and the         *)
(* operations add, Add, AddInterface, AddVivifier, Get, Call, CallMethod.  *)
(*                                                                         *)
(* A Go map is modelled as a record [isNil, m]: isNil tells the nil map    *)
(* from an allocated one, m is a function whose domain is the key set.     *)
(* A reflect.Value is a record [typ, v]: its dynamic type and a payload    *)
(* that stands for the identity of the value.                              *)
(***************************************************************************)
EXTENDS Integers, Sequences, FiniteSets, TLC

\* Number of distinct values per concrete type that a caller or a vivifier
\* may supply.
MaxVal == 2

(***************************************************************************)
(* reflect.Type                                                            *)
(***************************************************************************)

\* The types used as registry keys.
Types == {"string", "trialInterface", "iTrialInterface", "*iTrialInterface"}

\* Types that appear only as type tokens.
TokenTypes == Types \cup {"*string"}

\* reflect.Type.Kind
Kind(t) ==
    CASE t = "string" -> "String"
      [] t = "trialInterface" -> "Int"
      [] t = "iTrialInterface" -> "Interface"
      [] t = "error" -> "Interface"
      [] t = "interface{}" -> "Interface"
      [] t = "*iTrialInterface" -> "Ptr"
      [] t = "*string" -> "Ptr"
      [] OTHER -> "Invalid"

\* reflect.Type.Elem of a pointer type
Elem(t) ==
    CASE t = "*iTrialInterface" -> "iTrialInterface"
      [] t = "*string" -> "string"
      [] OTHER -> "invalid"

\* reflect.Type.AssignableTo: identical types, or an interface type the
\* value's type implements.  trialInterface has the method of
\* iTrialInterface; injector.Error and the targets' errors implement error;
\* every type implements interface{}.
AssignableTo(vt, t) ==
    \/ vt = t
    \/ t = "interface{}"
    \/ t = "iTrialInterface" /\ vt = "trialInterface"

(***************************************************************************)
(* reflect.Value and interface{} arguments                                 *)
(***************************************************************************)

\* reflect.Value{} : the zero Value, which is not valid
ZeroValue == [typ |-> "invalid", v |-> 0]

IsValid(val) == val.typ # "invalid"

\* The valid values the model supplies.
Values ==
    {[typ |-> "string", v |-> 1]} \cup [typ : {"trialInterface"}, v : 1..MaxVal]

\* An interface{} argument: nil, a plain value, or a reflect.Value handed
\* over in place of the value it reflects.
NilObj == [form |-> "nil", typ |-> "invalid", v |-> 0]

Objs ==
    {NilObj}
    \cup {[form |-> f, typ |-> val.typ, v |-> val.v] :
             f \in {"plain", "reflected"}, val \in Values}
    \cup {[form |-> "reflected", typ |-> "invalid", v |-> 0]}

\* val, ok := obj.(reflect.Value); if !ok { val = reflect.ValueOf(obj) }
Reflect(obj) ==
    IF obj.form = "nil" THEN ZeroValue ELSE [typ |-> obj.typ, v |-> obj.v]

(***************************************************************************)
(* Errors                                                                  *)
(***************************************************************************)

\* An error is the sentinel it matches (errors.Is) and the text added by
\* fmt.Errorf when the sentinel is wrapped; a bare sentinel has no text.
NoErr == [is |-> "nil", msg |-> ""]

ErrNil == [is |-> "ErrNil", msg |-> ""]
ErrDuplicate == [is |-> "ErrDuplicate", msg |-> ""]
ErrBadInterface == [is |-> "ErrBadInterface", msg |-> ""]
ErrBadType == [is |-> "ErrBadType", msg |-> ""]
ErrNoMethod == [is |-> "ErrNoMethod", msg |-> ""]
ErrBadMethod == [is |-> "ErrBadMethod", msg |-> ""]
ErrMissingValue == [is |-> "ErrMissingValue", msg |-> ""]

\* fmt.Errorf("... %w ...", sentinel, text)
Wrap(sentinel, text) == [is |-> sentinel.is, msg |-> text]

\* Errors of vivifiers and of invoked targets: not injector errors.
AnError == [is |-> "AnError", msg |-> ""]
OtherError == [is |-> "OtherError", msg |-> ""]

\* IsInjectorError
IsInjectorError(e) ==
    e.is \in {"ErrNil", "ErrDuplicate", "ErrBadInterface", "ErrBadType",
              "ErrNoMethod", "ErrBadMethod", "ErrMissingValue"}

(***************************************************************************)
(* The Injector                                                            *)
(***************************************************************************)

VARIABLES
    Objects,      \* Injector.Objects   : map[reflect.Type]reflect.Value
    Vivifiers,    \* Injector.Vivifiers : map[reflect.Type]Vivifier
    Fallback,     \* Injector.Fallback  : Vivifier, or NoVivifier
    vivified,     \* history: type -> the value a Get obtained from a vivifier
                  \*          and returned
    obs,          \* the operation under observation, once it has run: its
                  \* inputs, its result, the calls it made, the state before
    depMethod,    \* depinject: the *Method the caller holds, from New
    dobs,         \* depinject: the last operation, its inputs and its result
    ivText,       \* parsing: the text handed to interval.Parse or parser.Parse
    ivState,      \* parsing: the State object the characters are passed to
    ivIdx,        \* parsing: the loop of parser.Parse, as the index of the
                  \*          next character
    ivPc,         \* parsing: where the call stands
    ivCalls,      \* parsing: the (pos, char) pairs passed to State.Parse
    ivErr,        \* parsing: what parser.Parse returned
    ivResult,     \* parsing: what interval.Parse returned
    ivFrom,       \* parsing: the Interval whose String is the text, if any
    exErr,        \* exit control: the error handed to ExitControl
    exCur,        \* exit control: the error errors.As is looking at
    exPc,         \* exit control: where the call stands
    exTmp,        \* exit control: the *CommandError errors.As found
    exOut,        \* exit control: what ExitControl returned
    cmdObj,       \* commands: the command the caller holds
    cmdArg,       \* commands: the command handed to the last wrapper
    mgD,          \* Deps: a Deps map the caller holds
    mgOther,      \* Deps: another Deps map the caller holds
    mgPre         \* Deps: the receiver and the argument of the last Merge,
                  \*       as they were before it

injVars == <<Objects, Vivifiers, Fallback, vivified, obs>>
depVars == <<depMethod, dobs>>
ivVars == <<ivText, ivState, ivIdx, ivPc, ivCalls, ivErr, ivResult, ivFrom>>
exVars == <<exErr, exCur, exPc, exTmp, exOut>>
cmdVars == <<cmdObj, cmdArg>>
mgVars == <<mgD, mgOther, mgPre>>
vars == <<injVars, depVars, ivVars, exVars, cmdVars, mgVars>>

\* The variables other than those of the Injector, of depinject, of parsing,
\* of exit control, of the commands.
notInjVars == <<depVars, ivVars, exVars, cmdVars, mgVars>>
notDepVars == <<injVars, ivVars, exVars, cmdVars, mgVars>>
notIvVars == <<injVars, depVars, exVars, cmdVars, mgVars>>
notExVars == <<injVars, depVars, ivVars, cmdVars, mgVars>>
notCmdVars == <<injVars, depVars, ivVars, exVars, mgVars>>
notMgVars == <<injVars, depVars, ivVars, exVars, cmdVars>>

\* The nil map and map helpers.
NilMap == [isNil |-> TRUE, m |-> <<>>]

Has(mp, k) == ~mp.isNil /\ k \in DOMAIN mp.m

\* The nil Vivifier interface value.
NoVivifier == "nil"

\* The vivifier objects a caller registers, and the one used as fallback.
VivIds == {"viv1", "viv2"}
FallbackId == "fallback"

\* What one Vivify call returns: (interface{}, error).
Outcomes ==
    {[obj |-> o, err |-> NoErr] : o \in {x \in Objs : x.form # "reflected"}}
    \cup {[obj |-> NilObj, err |-> e] : e \in {AnError, OtherError}}
    \cup {[obj |-> [form |-> "plain", typ |-> "string", v |-> 1], err |-> AnError]}

\* The Injector as one record.
Inj == [Objects |-> Objects, Vivifiers |-> Vivifiers, Fallback |-> Fallback]

\* What an operation hands back to its caller, with the Injector it leaves:
\* the returned Value and error, whether it panicked instead of returning,
\* and the Vivify calls it made, in order.
Result(inj, val, err, panic, calls) ==
    [inj |-> inj, val |-> val, err |-> err, panic |-> panic, calls |-> calls]

\* add without the duplicate check: a second value replaces the first.
addOverwrites(inj, typ, obj) ==
    LET val == Reflect(obj) IN
    IF ~IsValid(val)
    THEN Result(inj, ZeroValue, NoErr, TRUE, <<>>)
    ELSE IF ~AssignableTo(val.typ, typ)
    THEN Result(inj, ZeroValue, Wrap(ErrBadType, typ), FALSE, <<>>)
    ELSE IF inj.Objects.isNil
    THEN Result([inj EXCEPT !.Objects = [isNil |-> FALSE, m |-> (typ :> val)]],
                val, NoErr, FALSE, <<>>)
    ELSE Result([inj EXCEPT !.Objects.m = (typ :> val) @@ @],
                val, NoErr, FALSE, <<>>)

\* add that reports success, with the value in the slot, when the slot is
\* taken.
addKeepsFirstSilently(inj, typ, obj) ==
    LET val == Reflect(obj) IN
    IF ~IsValid(val)
    THEN Result(inj, ZeroValue, NoErr, TRUE, <<>>)
    ELSE IF ~AssignableTo(val.typ, typ)
    THEN Result(inj, ZeroValue, Wrap(ErrBadType, typ), FALSE, <<>>)
    ELSE IF inj.Objects.isNil
    THEN Result([inj EXCEPT !.Objects = [isNil |-> FALSE, m |-> (typ :> val)]],
                val, NoErr, FALSE, <<>>)
    ELSE IF typ \in DOMAIN inj.Objects.m
    THEN Result(inj, inj.Objects.m[typ], NoErr, FALSE, <<>>)
    ELSE Result([inj EXCEPT !.Objects.m = (typ :> val) @@ @],
                val, NoErr, FALSE, <<>>)

\* add without the test of assignability.
addUnchecked(inj, typ, obj) ==
    LET val == Reflect(obj) IN
    IF ~IsValid(val)
    THEN Result(inj, ZeroValue, NoErr, TRUE, <<>>)
    ELSE IF inj.Objects.isNil
    THEN Result([inj EXCEPT !.Objects = [isNil |-> FALSE, m |-> (typ :> val)]],
                val, NoErr, FALSE, <<>>)
    ELSE IF typ \in DOMAIN inj.Objects.m
    THEN Result(inj, ZeroValue, Wrap(ErrDuplicate, typ), FALSE, <<>>)
    ELSE Result([inj EXCEPT !.Objects.m = (typ :> val) @@ @],
                val, NoErr, FALSE, <<>>)

\* add storing the value before it looks for a duplicate.
addStoresFirst(inj, typ, obj) ==
    LET val == Reflect(obj) IN
    IF ~IsValid(val)
    THEN Result(inj, ZeroValue, NoErr, TRUE, <<>>)
    ELSE IF ~AssignableTo(val.typ, typ)
    THEN Result(inj, ZeroValue, Wrap(ErrBadType, typ), FALSE, <<>>)
    ELSE IF inj.Objects.isNil
    THEN Result([inj EXCEPT !.Objects = [isNil |-> FALSE, m |-> (typ :> val)]],
                val, NoErr, FALSE, <<>>)
    ELSE IF typ \in DOMAIN inj.Objects.m
    THEN Result([inj EXCEPT !.Objects.m = (typ :> val) @@ @],
                ZeroValue, Wrap(ErrDuplicate, typ), FALSE, <<>>)
    ELSE Result([inj EXCEPT !.Objects.m = (typ :> val) @@ @],
                val, NoErr, FALSE, <<>>)

\* add looking for a duplicate before it checks assignability.
addDuplicateFirst(inj, typ, obj) ==
    LET val == Reflect(obj) IN
    IF ~IsValid(val)
    THEN Result(inj, ZeroValue, NoErr, TRUE, <<>>)
    ELSE IF Has(inj.Objects, typ)
    THEN Result(inj, ZeroValue, Wrap(ErrDuplicate, typ), FALSE, <<>>)
    ELSE IF ~AssignableTo(val.typ, typ)
    THEN Result(inj, ZeroValue, Wrap(ErrBadType, typ), FALSE, <<>>)
    ELSE IF inj.Objects.isNil
    THEN Result([inj EXCEPT !.Objects = [isNil |-> FALSE, m |-> (typ :> val)]],
                val, NoErr, FALSE, <<>>)
    ELSE Result([inj EXCEPT !.Objects.m = (typ :> val) @@ @],
                val, NoErr, FALSE, <<>>)

\* func (i *Injector) add(typ reflect.Type, obj interface{}) (reflect.Value, error)
add(inj, typ, obj) ==
    LET val == Reflect(obj) IN
    IF ~IsValid(val)
    THEN \* val.Type() of the zero Value panics
         Result(inj, ZeroValue, NoErr, TRUE, <<>>)
    ELSE IF ~AssignableTo(val.typ, typ)
    THEN Result(inj, ZeroValue, Wrap(ErrBadType, typ), FALSE, <<>>)
    ELSE IF inj.Objects.isNil
    THEN Result([inj EXCEPT !.Objects = [isNil |-> FALSE, m |-> (typ :> val)]],
                val, NoErr, FALSE, <<>>)
    ELSE IF typ \in DOMAIN inj.Objects.m
    THEN Result(inj, ZeroValue, Wrap(ErrDuplicate, typ), FALSE, <<>>)
    ELSE Result([inj EXCEPT !.Objects.m = (typ :> val) @@ @],
                val, NoErr, FALSE, <<>>)

\* func (i *Injector) Add(obj interface{}) error
Add(inj, obj) ==
    IF obj.form = "nil"
    THEN Result(inj, ZeroValue, ErrNil, FALSE, <<>>)
    ELSE LET val == Reflect(obj) IN
         IF ~IsValid(val)
         THEN \* val.Type() of the zero Value panics
              Result(inj, ZeroValue, NoErr, TRUE, <<>>)
         ELSE LET r == add(inj, val.typ, [obj EXCEPT !.form = "reflected"]) IN
              Result(r.inj, ZeroValue, r.err, r.panic, <<>>)

\* A type token (the iface argument of AddInterface, the obj argument of
\* AddVivifier): nil, a value whose type is meant, or a reflect.Type.
NilToken == [form |-> "nil", typ |-> "invalid"]

Tokens == {NilToken} \cup [form : {"value", "type"}, typ : TokenTypes]

\* AddInterface looking at the type token before it looks at the value.
AddInterfaceTokenFirst(inj, iface, obj) ==
    IF iface.form = "nil"
    THEN Result(inj, ZeroValue, NoErr, TRUE, <<>>)
    ELSE IF iface.form = "value" /\ Kind(iface.typ) # "Ptr"
    THEN Result(inj, ZeroValue, ErrBadInterface, FALSE, <<>>)
    ELSE LET typ == IF iface.form = "value" THEN Elem(iface.typ) ELSE iface.typ IN
         IF Kind(typ) # "Interface"
         THEN Result(inj, ZeroValue, ErrBadInterface, FALSE, <<>>)
         ELSE IF obj.form = "nil"
         THEN Result(inj, ZeroValue, ErrNil, FALSE, <<>>)
         ELSE LET r == add(inj, typ, obj) IN
              Result(r.inj, ZeroValue, r.err, r.panic, <<>>)

\* func (i *Injector) AddInterface(iface interface{}, obj interface{}) error
AddInterface(inj, iface, obj) ==
    IF obj.form = "nil"
    THEN Result(inj, ZeroValue, ErrNil, FALSE, <<>>)
    ELSE IF iface.form = "nil"
    THEN \* reflect.TypeOf(nil) is nil: typ.Kind() panics
         Result(inj, ZeroValue, NoErr, TRUE, <<>>)
    ELSE IF iface.form = "value" /\ Kind(iface.typ) # "Ptr"
    THEN Result(inj, ZeroValue, ErrBadInterface, FALSE, <<>>)
    ELSE LET typ == IF iface.form = "value" THEN Elem(iface.typ) ELSE iface.typ IN
         IF Kind(typ) # "Interface"
         THEN Result(inj, ZeroValue, ErrBadInterface, FALSE, <<>>)
         ELSE LET r == add(inj, typ, obj) IN
              Result(r.inj, ZeroValue, r.err, r.panic, <<>>)

\* The key taken from the token as it stands, pointer or not.
VivifierTypeLiteral(obj) == obj.typ

\* The key AddVivifier files the vivifier under.
VivifierType(obj) ==
    IF obj.form = "value" /\ Kind(obj.typ) = "Ptr" /\ Kind(Elem(obj.typ)) = "Interface"
    THEN Elem(obj.typ)
    ELSE obj.typ

\* AddVivifier without the duplicate check: a second vivifier replaces the
\* first.
AddVivifierOverwrites(inj, obj, viv) ==
    IF viv = NoVivifier
    THEN Result(inj, ZeroValue, ErrNil, FALSE, <<>>)
    ELSE IF obj.form = "nil"
    THEN Result(inj, ZeroValue, NoErr, TRUE, <<>>)
    ELSE LET typ == VivifierType(obj) IN
         IF inj.Vivifiers.isNil
         THEN Result([inj EXCEPT !.Vivifiers = [isNil |-> FALSE, m |-> (typ :> viv)]],
                     ZeroValue, NoErr, FALSE, <<>>)
         ELSE Result([inj EXCEPT !.Vivifiers.m = (typ :> viv) @@ @],
                     ZeroValue, NoErr, FALSE, <<>>)

\* AddVivifier that refuses a type that has a value in its slot.
AddVivifierRefusesValueType(inj, obj, viv) ==
    IF viv = NoVivifier
    THEN Result(inj, ZeroValue, ErrNil, FALSE, <<>>)
    ELSE IF obj.form = "nil"
    THEN Result(inj, ZeroValue, NoErr, TRUE, <<>>)
    ELSE LET typ == VivifierType(obj) IN
         IF Has(inj.Objects, typ)
         THEN Result(inj, ZeroValue, Wrap(ErrDuplicate, typ), FALSE, <<>>)
         ELSE IF inj.Vivifiers.isNil
         THEN Result([inj EXCEPT !.Vivifiers = [isNil |-> FALSE, m |-> (typ :> viv)]],
                     ZeroValue, NoErr, FALSE, <<>>)
         ELSE IF typ \in DOMAIN inj.Vivifiers.m
         THEN Result(inj, ZeroValue, Wrap(ErrDuplicate, typ), FALSE, <<>>)
         ELSE Result([inj EXCEPT !.Vivifiers.m = (typ :> viv) @@ @],
                     ZeroValue, NoErr, FALSE, <<>>)

\* func (i *Injector) AddVivifier(obj interface{}, viv Vivifier) error
AddVivifier(inj, obj, viv) ==
    IF viv = NoVivifier
    THEN Result(inj, ZeroValue, ErrNil, FALSE, <<>>)
    ELSE IF obj.form = "nil"
    THEN \* reflect.TypeOf(nil) is nil: typ.Kind() panics
         Result(inj, ZeroValue, NoErr, TRUE, <<>>)
    ELSE LET typ == VivifierType(obj) IN
         IF inj.Vivifiers.isNil
         THEN Result([inj EXCEPT !.Vivifiers = [isNil |-> FALSE, m |-> (typ :> viv)]],
                     ZeroValue, NoErr, FALSE, <<>>)
         ELSE IF typ \in DOMAIN inj.Vivifiers.m
         THEN Result(inj, ZeroValue, Wrap(ErrDuplicate, typ), FALSE, <<>>)
         ELSE Result([inj EXCEPT !.Vivifiers.m = (typ :> viv) @@ @],
                     ZeroValue, NoErr, FALSE, <<>>)

\* One Vivify call, as recorded in a trace: the vivifier, the type asked
\* for, what the vivifier returned, and the Value the Get that made the call
\* returned to its caller (the zero Value when it failed).
VivCall(viv, typ, out, val) == [viv |-> viv, typ |-> typ, out |-> out, val |-> val]

\* The vivified value returned without being added to the Injector.
VivifyUncached(inj, viv, typ, out) ==
    IF out.err # NoErr
    THEN Result(inj, ZeroValue, out.err, FALSE, <<VivCall(viv, typ, out, ZeroValue)>>)
    ELSE LET r == add(inj, typ, out.obj) IN
         Result(inj, r.val, r.err, r.panic, <<VivCall(viv, typ, out, r.val)>>)

\* The error returned, but only after the object that came with it was added.
VivifyAddsOnError(inj, viv, typ, out) ==
    LET r == add(inj, typ, out.obj) IN
    IF out.err # NoErr
    THEN Result(IF out.obj.form = "nil" THEN inj ELSE r.inj,
                ZeroValue, out.err, FALSE, <<VivCall(viv, typ, out, ZeroValue)>>)
    ELSE Result(r.inj, r.val, r.err, r.panic, <<VivCall(viv, typ, out, r.val)>>)

\* The vivifier's error handed on as the injector's own "missing value".
VivifyWrapsError(inj, viv, typ, out) ==
    IF out.err # NoErr
    THEN Result(inj, ZeroValue, Wrap(ErrMissingValue, typ), FALSE,
                <<VivCall(viv, typ, out, ZeroValue)>>)
    ELSE LET r == add(inj, typ, out.obj) IN
         Result(r.inj, r.val, r.err, r.panic, <<VivCall(viv, typ, out, r.val)>>)

\* obj, err := viv.Vivify(i, typ); if err != nil { return reflect.Value{}, err }
\* return i.add(typ, obj)
Vivify(inj, viv, typ, out) ==
    IF out.err # NoErr
    THEN Result(inj, ZeroValue, out.err, FALSE, <<VivCall(viv, typ, out, ZeroValue)>>)
    ELSE LET r == add(inj, typ, out.obj) IN
         Result(r.inj, r.val, r.err, r.panic, <<VivCall(viv, typ, out, r.val)>>)

\* Get trying the fallback before the type-specific vivifier.
GetFallbackFirst(inj, typ, out) ==
    IF Has(inj.Objects, typ)
    THEN Result(inj, inj.Objects.m[typ], NoErr, FALSE, <<>>)
    ELSE IF inj.Fallback # NoVivifier
    THEN Vivify(inj, inj.Fallback, typ, out)
    ELSE IF Has(inj.Vivifiers, typ)
    THEN Vivify(inj, inj.Vivifiers.m[typ], typ, out)
    ELSE Result(inj, ZeroValue, Wrap(ErrMissingValue, typ), FALSE, <<>>)

\* Get trying the type-specific vivifier before it looks in Objects.
GetVivifierFirst(inj, typ, out) ==
    IF Has(inj.Vivifiers, typ)
    THEN Vivify(inj, inj.Vivifiers.m[typ], typ, out)
    ELSE IF Has(inj.Objects, typ)
    THEN Result(inj, inj.Objects.m[typ], NoErr, FALSE, <<>>)
    ELSE IF inj.Fallback # NoVivifier
    THEN Vivify(inj, inj.Fallback, typ, out)
    ELSE Result(inj, ZeroValue, Wrap(ErrMissingValue, typ), FALSE, <<>>)

\* func (i *Injector) Get(typ reflect.Type) (reflect.Value, error)
\* out is what the vivifier returns if Get invokes one.
\* Get that turns to the fallback when the vivifier of the type has failed.
GetFallsBack(inj, typ, out) ==
    IF Has(inj.Objects, typ)
    THEN Result(inj, inj.Objects.m[typ], NoErr, FALSE, <<>>)
    ELSE IF Has(inj.Vivifiers, typ)
    THEN LET r == Vivify(inj, inj.Vivifiers.m[typ], typ, out) IN
         IF out.err # NoErr /\ inj.Fallback # NoVivifier
         THEN LET f == Vivify(inj, inj.Fallback, typ, out) IN
              Result(f.inj, f.val, f.err, f.panic, r.calls \o f.calls)
         ELSE r
    ELSE IF inj.Fallback # NoVivifier
    THEN Vivify(inj, inj.Fallback, typ, out)
    ELSE Result(inj, ZeroValue, Wrap(ErrMissingValue, typ), FALSE, <<>>)

Get(inj, typ, out) ==
    IF Has(inj.Objects, typ)
    THEN Result(inj, inj.Objects.m[typ], NoErr, FALSE, <<>>)
    ELSE IF Has(inj.Vivifiers, typ)
    THEN Vivify(inj, inj.Vivifiers.m[typ], typ, out)
    ELSE IF inj.Fallback # NoVivifier
    THEN Vivify(inj, inj.Fallback, typ, out)
    ELSE Result(inj, ZeroValue, Wrap(ErrMissingValue, typ), FALSE, <<>>)

(***************************************************************************)
(* Call and CallMethod                                                     *)
(***************************************************************************)

\* A method handle (reflect.Value of a method): whether it is valid, its
\* kind, and its function type: variadic or not, parameter types, result
\* types.
Method(name, valid, kind, variadic, in, out) ==
    [name |-> name, valid |-> valid, kind |-> kind, variadic |-> variadic,
     in |-> in, out |-> out]

\* reflect.Value{} and reflect.ValueOf(5) handed over as a method.
NoMethod == Method("", FALSE, "Invalid", FALSE, <<>>, <<>>)
NotFunc == Method("", TRUE, "Int", FALSE, <<>>, <<>>)

\* The methods of the owner object.
Methods ==
    { Method("Niladic", TRUE, "Func", FALSE, <<>>, <<>>),
      Method("NiladicErr", TRUE, "Func", FALSE, <<>>, <<"error">>),
      Method("Basic", TRUE, "Func", FALSE, <<"trialInterface", "string">>, <<>>),
      Method("BasicErr", TRUE, "Func", FALSE,
             <<"string", "iTrialInterface">>, <<"error">>),
      Method("Twice", TRUE, "Func", FALSE, <<"string", "string">>, <<>>),
      Method("Variadic", TRUE, "Func", TRUE, <<"trialInterface", "[]string">>, <<>>),
      Method("TwoReturn", TRUE, "Func", FALSE, <<>>, <<"interface{}", "error">>),
      Method("NonError", TRUE, "Func", FALSE, <<>>, <<"interface{}">>) }

MethodNames == {m.name : m \in Methods}

\* The target was not invoked, so it returned nothing.
NoReturn == [is |-> "none", msg |-> ""]

\* What a call of Call or CallMethod amounts to: the Injector it leaves,
\* the returned error, whether it panicked, the types passed to Get and the
\* Vivify calls made, in order, the argument lists the target was invoked
\* with, and what the target returned (filled in by Invoke).
CallResult(inj, err, panic, gets, calls, invoked) ==
    [inj |-> inj, val |-> ZeroValue, err |-> err, panic |-> panic,
     gets |-> gets, calls |-> calls, invoked |-> invoked, ret |-> NoReturn]

\* for j := 0; j < mTyp.NumIn(); j++ { val, err := i.Get(mTyp.In(j)); ... }
\* The outcomes of the loop over the parameter types ins, one for each way
\* the vivifiers it invokes may answer.
RECURSIVE Resolve(_, _, _, _, _)

\* The loop going on to the remaining parameters after a Get has failed,
\* and reporting the first failure at the end.
ResolveNoAbort(inj, ins, values, gets, calls) ==
    IF ins = <<>>
    THEN {[inj |-> inj, values |-> values, err |-> NoErr, panic |-> FALSE,
           gets |-> gets, calls |-> calls]}
    ELSE UNION {
           LET r == Get(inj, Head(ins), out) IN
           IF r.panic \/ r.err # NoErr
           THEN {[x EXCEPT !.err = r.err, !.panic = r.panic] :
                   x \in Resolve(r.inj, Tail(ins), values,
                                 Append(gets, Head(ins)), calls \o r.calls)}
           ELSE Resolve(r.inj, Tail(ins), Append(values, r.val),
                        Append(gets, Head(ins)), calls \o r.calls)
           : out \in Outcomes }

\* The loop putting each resolved value in front of the earlier ones.
ResolveReversed(inj, ins, values, gets, calls) ==
    IF ins = <<>>
    THEN {[inj |-> inj, values |-> values, err |-> NoErr, panic |-> FALSE,
           gets |-> gets, calls |-> calls]}
    ELSE UNION {
           LET r == Get(inj, Head(ins), out) IN
           IF r.panic \/ r.err # NoErr
           THEN {[inj |-> r.inj, values |-> values, err |-> r.err, panic |-> r.panic,
                  gets |-> Append(gets, Head(ins)), calls |-> calls \o r.calls]}
           ELSE Resolve(r.inj, Tail(ins), <<r.val>> \o values,
                        Append(gets, Head(ins)), calls \o r.calls)
           : out \in Outcomes }

Resolve(inj, ins, values, gets, calls) ==
    IF ins = <<>>
    THEN {[inj |-> inj, values |-> values, err |-> NoErr, panic |-> FALSE,
           gets |-> gets, calls |-> calls]}
    ELSE UNION {
           LET r == Get(inj, Head(ins), out) IN
           IF r.panic \/ r.err # NoErr
           THEN {[inj |-> r.inj, values |-> values, err |-> r.err, panic |-> r.panic,
                  gets |-> Append(gets, Head(ins)), calls |-> calls \o r.calls]}
           ELSE Resolve(r.inj, Tail(ins), Append(values, r.val),
                        Append(gets, Head(ins)), calls \o r.calls)
           : out \in Outcomes }

\* What an invoked target with an error result may return.
Returns == {NoErr, AnError, OtherError}

\* result := meth.Call(values)
\* if len(result) > 0 { return result[0].Interface().(error) }
\* return nil
Invoke(meth, r) ==
    IF Len(meth.out) = 0
    THEN {CallResult(r.inj, NoErr, FALSE, r.gets, r.calls, <<r.values>>)}
    ELSE {IF ret = NoErr
          THEN \* Interface() of a nil error is the nil interface{}, and the
               \* type assertion .(error) on it panics
               [CallResult(r.inj, NoErr, TRUE, r.gets, r.calls, <<r.values>>)
                   EXCEPT !.ret = ret]
          ELSE [CallResult(r.inj, ret, FALSE, r.gets, r.calls, <<r.values>>)
                   EXCEPT !.ret = ret]
          : ret \in Returns}

\* CallMethod checking the shape of the method only after it has resolved
\* the parameters.
CallMethodResolvesFirst(inj, meth) ==
    IF ~meth.valid
    THEN {CallResult(inj, ErrNoMethod, FALSE, <<>>, <<>>, <<>>)}
    ELSE IF meth.kind # "Func"
    THEN {CallResult(inj, ErrBadMethod, FALSE, <<>>, <<>>, <<>>)}
    ELSE UNION {
           IF r.panic \/ r.err # NoErr
           THEN {CallResult(r.inj, r.err, r.panic, r.gets, r.calls, <<>>)}
           ELSE IF \/ meth.variadic
                   \/ Len(meth.out) > 1
                   \/ (Len(meth.out) = 1 /\ ~AssignableTo(meth.out[1], "error"))
           THEN {CallResult(r.inj, ErrBadMethod, FALSE, r.gets, r.calls, <<>>)}
           ELSE Invoke(meth, r)
           : r \in Resolve(inj, meth.in, <<>>, <<>>, <<>>) }

\* func (i *Injector) CallMethod(meth reflect.Value) error
CallMethod(inj, meth) ==
    IF ~meth.valid
    THEN {CallResult(inj, ErrNoMethod, FALSE, <<>>, <<>>, <<>>)}
    ELSE IF meth.kind # "Func"
    THEN {CallResult(inj, ErrBadMethod, FALSE, <<>>, <<>>, <<>>)}
    ELSE IF \/ meth.variadic
            \/ Len(meth.out) > 1
            \/ (Len(meth.out) = 1 /\ ~AssignableTo(meth.out[1], "error"))
    THEN {CallResult(inj, ErrBadMethod, FALSE, <<>>, <<>>, <<>>)}
    ELSE UNION {
           IF r.panic \/ r.err # NoErr
           THEN {CallResult(r.inj, r.err, r.panic, r.gets, r.calls, <<>>)}
           ELSE Invoke(meth, r)
           : r \in Resolve(inj, meth.in, <<>>, <<>>, <<>>) }

\* The owner objects handed to Call: nil, or the object with Methods.
NilOwner == "nil"
Owners == {NilOwner, "methods"}

\* val.MethodByName(method)
MethodByName(obj, method) ==
    IF method \in MethodNames
    THEN CHOOSE m \in Methods : m.name = method
    ELSE NoMethod

\* Call taking a nil owner for a nil value to inject.
CallNilOwnerIsNil(inj, obj, method) ==
    IF obj = NilOwner
    THEN {CallResult(inj, ErrNil, FALSE, <<>>, <<>>, <<>>)}
    ELSE LET meth == MethodByName(obj, method) IN
         IF ~meth.valid
         THEN {CallResult(inj, Wrap(ErrNoMethod, method), FALSE, <<>>, <<>>, <<>>)}
         ELSE CallMethod(inj, meth)

\* func (i *Injector) Call(obj interface{}, method string) error
Call(inj, obj, method) ==
    IF obj = NilOwner
    THEN {CallResult(inj, Wrap(ErrNoMethod, method), FALSE, <<>>, <<>>, <<>>)}
    ELSE LET meth == MethodByName(obj, method) IN
         IF ~meth.valid
         THEN {CallResult(inj, Wrap(ErrNoMethod, method), FALSE, <<>>, <<>>, <<>>)}
         ELSE CallMethod(inj, meth)

(***************************************************************************)
(* Package depinject: Method, New and Method.Call                          *)
(***************************************************************************)

\* The standard errors of package depinject, a type of their own.
DepErrNoMethod == [is |-> "depinject.ErrNoMethod", msg |-> ""]
DepErrBadMethod == [is |-> "depinject.ErrBadMethod", msg |-> ""]
DepErrMissingValue == [is |-> "depinject.ErrMissingValue", msg |-> ""]

\* func IsError(e error) bool
IsError(e) ==
    e.is \in {DepErrNoMethod.is, DepErrBadMethod.is, DepErrMissingValue.is}

\* The nil *Method, and a Method with its four fields.
NilMethod ==
    [isNil |-> TRUE, Name |-> "", Method |-> NoMethod, Deps |-> <<>>, Args |-> <<>>]

MethodOf(name, meth, deps, args) ==
    [isNil |-> FALSE, Name |-> name, Method |-> meth, Deps |-> deps, Args |-> args]

\* What New returns: (*Method, error).
NewResult(m, err) == [m |-> m, err |-> err]

\* for i := 0; i < mType.NumIn(); i++ { ... }
\* The loop of New over the parameter types from position i on, with the
\* Deps and Args collected so far.
RECURSIVE Account(_, _, _, _, _)

\* The loop without the test for a type seen before.
AccountNoDuplicateCheck(method, meth, i, deps, args) ==
    IF i > Len(meth.in)
    THEN NewResult(MethodOf(method, meth, deps, args), NoErr)
    ELSE Account(method, meth, i + 1,
                 (meth.in[i] :> ZeroValue) @@ deps, Append(args, meth.in[i]))

Account(method, meth, i, deps, args) ==
    IF i > Len(meth.in)
    THEN NewResult(MethodOf(method, meth, deps, args), NoErr)
    ELSE LET vType == meth.in[i] IN
         IF vType \in DOMAIN deps
         THEN NewResult(NilMethod, Wrap(DepErrBadMethod, method))
         ELSE Account(method, meth, i + 1,
                      (vType :> ZeroValue) @@ deps, Append(args, vType))

\* func New(obj interface{}, method string) (*Method, error)
New(obj, method) ==
    IF obj = NilOwner
    THEN NewResult(NilMethod, Wrap(DepErrNoMethod, method))
    ELSE LET meth == MethodByName(obj, method) IN
         IF ~meth.valid
         THEN NewResult(NilMethod, Wrap(DepErrNoMethod, method))
         ELSE IF \/ meth.variadic
                 \/ Len(meth.out) > 1
                 \/ (Len(meth.out) = 1 /\ ~AssignableTo(meth.out[1], "error"))
         THEN NewResult(NilMethod, Wrap(DepErrBadMethod, method))
         ELSE Account(method, meth, 1, <<>>, <<>>)

\* The types a Deps is keyed by, and the Deps a caller hands to Method.Call:
\* for each type no entry, an unset entry, or a value of the type.
DepTypes == {"string", "trialInterface", "iTrialInterface"}

DepsSet ==
    UNION {[S -> {ZeroValue} \cup Values] : S \in SUBSET DepTypes}

WellTyped(d) ==
    \A t \in DOMAIN d : IsValid(d[t]) => AssignableTo(d[t].typ, t)

Inputs == {d \in DepsSet : WellTyped(d)}

\* Merge that takes the values of other along with its types.
MergeCopiesValues(d, other) ==
    [t \in DOMAIN d \cup DOMAIN other |-> IF t \in DOMAIN d THEN d[t] ELSE other[t]]

\* func (d Deps) Merge(other Deps): d after the call.
\* for typ := range other { if _, ok := d[typ]; !ok { d[typ] = reflect.Value{} } }
Merge(d, other) ==
    [t \in DOMAIN d \cup DOMAIN other |-> IF t \in DOMAIN d THEN d[t] ELSE ZeroValue]

\* The receiver and the argument of a Merge, before it.
MergeOf(into, d, other) == [done |-> TRUE, into |-> into, d |-> d, other |-> other]
NoMerge == [done |-> FALSE, into |-> "", d |-> <<>>, other |-> <<>>]

\* tmp := inputs[typ]: the zero Value when the map has no entry.
Lookup(inputs, typ) ==
    IF typ \in DOMAIN inputs THEN inputs[typ] ELSE ZeroValue

\* What Method.Call amounts to: the returned error, whether it panicked,
\* the argument lists the method was invoked with, and what it returned.
MethodCallResult(err, panic, invoked, ret) ==
    [err |-> err, panic |-> panic, invoked |-> invoked, ret |-> ret]

\* for _, typ := range m.Args { ... }: the loop of Method.Call from position
\* i on, then the invocation; ret is what the method returns if invoked.
RECURSIVE Assemble(_, _, _, _, _)

\* The loop handing the values to the method in the reverse of Args order.
AssembleReversed(m, inputs, ret, i, values) ==
    IF i > Len(m.Args)
    THEN IF Len(m.Method.out) = 0
         THEN MethodCallResult(NoErr, FALSE, <<values>>, NoReturn)
         ELSE MethodCallResult(ret, ret = NoErr, <<values>>, ret)
    ELSE LET tmp == Lookup(inputs, m.Args[i]) IN
         IF ~IsValid(tmp)
         THEN MethodCallResult(Wrap(DepErrMissingValue, m.Args[i]), FALSE,
                               <<>>, NoReturn)
         ELSE Assemble(m, inputs, ret, i + 1, <<tmp>> \o values)

Assemble(m, inputs, ret, i, values) ==
    IF i > Len(m.Args)
    THEN IF Len(m.Method.out) = 0
         THEN MethodCallResult(NoErr, FALSE, <<values>>, NoReturn)
         ELSE \* result[0].Interface().(error): Interface() of a nil error is
              \* the nil interface{}, and the type assertion on it panics
              MethodCallResult(ret, ret = NoErr, <<values>>, ret)
    ELSE LET tmp == Lookup(inputs, m.Args[i]) IN
         IF ~IsValid(tmp)
         THEN MethodCallResult(Wrap(DepErrMissingValue, m.Args[i]), FALSE,
                               <<>>, NoReturn)
         ELSE Assemble(m, inputs, ret, i + 1, Append(values, tmp))

\* func (m *Method) Call(inputs Deps) error
MethodCall(m, inputs, ret) == Assemble(m, inputs, ret, 1, <<>>)

\* No depinject operation has run yet.
NoDepObs ==
    [op |-> "none", owner |-> NilOwner, name |-> "", m |-> NilMethod,
     inputs |-> <<>>, err |-> NoErr, panic |-> FALSE, invoked |-> <<>>,
     ret |-> NoReturn]

(***************************************************************************)
(* Packages parser and interval                                            *)
(***************************************************************************)

\* int64, at the width the model computes with: IntBits bits.
IntBits == 3

MinInt64 == -(2^(IntBits - 1))
MaxInt64 == 2^(IntBits - 1) - 1
Ints == MinInt64..MaxInt64

\* Arithmetic on int64 wraps around.
WrapInt(x) == ((x - MinInt64) % (2^IntBits)) + MinInt64

\* A text is a sequence of characters.  The ASCII digits, and one more
\* character that unicode.IsDigit accepts and that takes two bytes.
DigitChars == <<"0", "1", "2", "3", "4", "5", "6", "7", "8", "9">>
AsciiDigits == {DigitChars[i] : i \in DOMAIN DigitChars}
ArabicThree == "ARABIC-INDIC DIGIT THREE"

DigitVal(c) == (CHOOSE i \in DOMAIN DigitChars : DigitChars[i] = c) - 1

\* unicode.IsDigit
IsDigit(c) == c \in AsciiDigits \cup {ArabicThree}

\* The bytes a character takes in the string.
Width(c) == IF c = ArabicThree THEN 2 ELSE 1

\* len(text), in bytes
RECURSIVE ByteLen(_)
ByteLen(text) ==
    IF text = <<>> THEN 0 ELSE Width(Head(text)) + ByteLen(Tail(text))

\* The byte position of the i-th character: the pos of "for pos, char :=
\* range text".
Offset(text, i) == ByteLen(SubSeq(text, 1, i - 1))

\* s.Text[from:to]
Slice(text, from, to) ==
    LET idx == {i \in DOMAIN text : Offset(text, i) >= from /\ Offset(text, i) < to} IN
    IF idx = {} THEN <<>>
    ELSE SubSeq(text, CHOOSE i \in idx : \A j \in idx : i <= j,
                      CHOOSE i \in idx : \A j \in idx : i >= j)

\* The value of a sequence of ASCII digits.
RECURSIVE DecVal(_)
DecVal(ds) ==
    IF ds = <<>> THEN 0
    ELSE 10 * DecVal(SubSeq(ds, 1, Len(ds) - 1)) + DigitVal(ds[Len(ds)])

\* The errors of strconv.ParseInt.
ErrSyntax == [is |-> "strconv.ErrSyntax", msg |-> ""]
ErrRange == [is |-> "strconv.ErrRange", msg |-> ""]

\* strconv.ParseInt(str, 10, 64): an optional sign and ASCII digits, the
\* value within the range of int64.
ParseInt(str) ==
    LET signed == str # <<>> /\ str[1] \in {"+", "-"}
        ds == IF signed THEN Tail(str) ELSE str
    IN  IF ds = <<>> \/ \E i \in DOMAIN ds : ds[i] \notin AsciiDigits
        THEN [v |-> 0, err |-> ErrSyntax]
        ELSE LET n == IF signed /\ str[1] = "-" THEN -DecVal(ds) ELSE DecVal(ds) IN
             IF n < MinInt64 THEN [v |-> MinInt64, err |-> ErrRange]
             ELSE IF n > MaxInt64 THEN [v |-> MaxInt64, err |-> ErrRange]
             ELSE [v |-> n, err |-> NoErr]

\* The decimal text of an integer, as a caller writes it.
Decimal(n) ==
    LET a == IF n < 0 THEN -n ELSE n
        ds == IF a >= 10 THEN <<DigitChars[(a \div 10) + 1], DigitChars[(a % 10) + 1]>>
              ELSE <<DigitChars[a + 1]>>
    IN  IF n < 0 THEN <<"-">> \o ds ELSE ds

\* type Interval struct { Start, End int64 }, and its zero value.
Interval(start, end) == [Start |-> start, End |-> end]
ZeroInterval == Interval(0, 0)

\* String that writes the end as a closed bound.
StringClosed(r) ==
    IF r.End <= WrapInt(r.Start + 1)
    THEN <<"[">> \o Decimal(r.Start) \o <<"]">>
    ELSE <<"[">> \o Decimal(r.Start) \o <<",">> \o Decimal(r.End) \o <<"]">>

\* func (r Interval) String() string
String(r) ==
    IF r.End <= WrapInt(r.Start + 1)
    THEN <<"[">> \o Decimal(r.Start) \o <<"]">>
    ELSE <<"[">> \o Decimal(r.Start) \o <<",">> \o Decimal(r.End) \o <<")">>

\* The Interval a text was made of, or none.
Given(r) == [given |-> TRUE, ival |-> r]
NoInterval == [given |-> FALSE, ival |-> ZeroInterval]

\* func (r Interval) Includes(v int64) bool
Includes(r, v) == v >= r.Start /\ v < r.End

\* var ErrInvalid = errors.New("invalid interval")
ErrInvalid == [is |-> "ErrInvalid", msg |-> ""]

\* Error handing a cause on as it is.
StateErrorBare(err) ==
    IF err = NoErr THEN ErrInvalid ELSE err

\* func (s *state) Error(err error) error: ErrInvalid wrapped, with the
\* cause in the message if there is one.
StateError(err) ==
    IF err = NoErr THEN ErrInvalid ELSE [is |-> ErrInvalid.is, msg |-> err.is]

\* s := &state{Text: text}.  A State object is the state of package
\* interval, or a State of the caller's own that fails at its failAt-th call.
NewState ==
    [kind |-> "interval", Ival |-> ZeroInterval, EmptyStart |-> FALSE,
     ExclStart |-> FALSE, ExclEnd |-> FALSE, IPos |-> 0, State |-> "stateInit",
     failAt |-> 0]

NoState == [NewState EXCEPT !.kind = "none"]

MockState(failAt) == [NewState EXCEPT !.kind = "mock", !.failAt = failAt]

\* What a method of the state returns, with the state it leaves.
StateResult(s, v, err) == [s |-> s, v |-> v, err |-> err]

\* Get leaving the flags alone when a bound is omitted.
StateGetKeepsFlags(s, text, pos) ==
    IF s.IPos = pos
    THEN IF s.State = "stateStart"
         THEN StateResult([s EXCEPT !.EmptyStart = TRUE], MinInt64, NoErr)
         ELSE StateResult(s, MaxInt64, NoErr)
    ELSE LET r == ParseInt(Slice(text, s.IPos, pos)) IN
         StateResult(s, r.v, r.err)

\* func (s *state) Get(pos int) (int64, error)
StateGet(s, text, pos) ==
    IF s.IPos = pos
    THEN IF s.State = "stateStart"
         THEN StateResult([s EXCEPT !.EmptyStart = TRUE, !.ExclStart = FALSE],
                          MinInt64, NoErr)
         ELSE StateResult([s EXCEPT !.ExclEnd = TRUE], MaxInt64, NoErr)
    ELSE LET r == ParseInt(Slice(text, s.IPos, pos)) IN
         StateResult(s, r.v, r.err)

\* func (s *state) Parse(pos int, char rune) error
RECURSIVE StateParse(_, _, _, _)

StateParse(s, text, pos, char) ==
    CASE s.State = "stateInit" ->
           IF char = "("
           THEN StateResult([s EXCEPT !.ExclStart = TRUE, !.State = "stateStart",
                                      !.IPos = pos + 1], 0, NoErr)
           ELSE IF char # "["
           THEN StateResult(s, 0, StateError(NoErr))
           ELSE StateResult([s EXCEPT !.State = "stateStart", !.IPos = pos + 1],
                            0, NoErr)
      [] s.State \in {"stateStart", "stateEnd"} ->
           IF ~IsDigit(char) /\ ~(s.IPos = pos /\ char \in {"+", "-"})
           THEN LET g == StateGet(s, text, pos) IN
                IF g.err # NoErr
                THEN StateResult(g.s, 0, StateError(g.err))
                ELSE IF s.State = "stateStart"
                THEN StateParse([g.s EXCEPT !.Ival.Start = g.v, !.State = "stateSep"],
                                text, pos, char)
                ELSE StateParse([g.s EXCEPT !.Ival.End = g.v, !.State = "stateClose"],
                                text, pos, char)
           ELSE StateResult(s, 0, NoErr)
      [] s.State = "stateSep" ->
           IF char = ","
           THEN StateResult([s EXCEPT !.State = "stateEnd", !.IPos = pos + 1], 0, NoErr)
           ELSE IF char \in {")", "]"}
           THEN StateParse(
                  IF s.EmptyStart
                  THEN [s EXCEPT !.Ival.End = MaxInt64, !.ExclEnd = TRUE,
                                 !.State = "stateClose"]
                  ELSE [s EXCEPT !.ExclStart = FALSE,
                                 !.Ival.End = WrapInt(s.Ival.Start + 1),
                                 !.ExclEnd = TRUE, !.State = "stateClose"],
                  text, pos, char)
           ELSE StateResult(s, 0, StateError(NoErr))
      [] s.State = "stateClose" ->
           IF char = ")"
           THEN StateResult([s EXCEPT !.ExclEnd = TRUE, !.State = "stateDone"], 0, NoErr)
           ELSE IF char # "]"
           THEN StateResult(s, 0, StateError(NoErr))
           ELSE StateResult([s EXCEPT !.State = "stateDone"], 0, NoErr)
      [] OTHER -> StateResult(s, 0, StateError(NoErr))

\* The Parse method of the caller's own State at its n-th call.
MockParse(s, n) ==
    StateResult(s, 0, IF s.failAt = n THEN AnError ELSE NoErr)

\* s.Parse(pos, char) on a State object, as its n-th call.
CallState(s, text, pos, char, n) ==
    IF s.kind = "mock" THEN MockParse(s, n) ELSE StateParse(s, text, pos, char)

\* What interval.Parse returns, once it has: (Interval, error).
ParseResult(ival, err) == [done |-> TRUE, ival |-> ival, err |-> err]
NoResult == [done |-> FALSE, ival |-> ZeroInterval, err |-> NoErr]

\* The end of interval.Parse without the test that the parser is done.
CanonicalizeAnyState(s, err) ==
    IF err # NoErr
    THEN ParseResult(ZeroInterval, err)
    ELSE LET start == IF s.ExclStart THEN WrapInt(s.Ival.Start + 1) ELSE s.Ival.Start
             end == IF ~s.ExclEnd THEN WrapInt(s.Ival.End + 1) ELSE s.Ival.End
         IN  IF end <= start
             THEN ParseResult(ZeroInterval, StateError(NoErr))
             ELSE ParseResult(Interval(start, end), NoErr)

\* interval.Parse after parser.Parse has returned err and left the state s:
\* the check that the text was complete, and the canonical form.
Canonicalize(s, err) ==
    IF err # NoErr
    THEN ParseResult(ZeroInterval, err)
    ELSE IF s.State # "stateDone"
    THEN ParseResult(ZeroInterval, StateError(NoErr))
    ELSE LET start == IF s.ExclStart THEN WrapInt(s.Ival.Start + 1) ELSE s.Ival.Start
             end == IF ~s.ExclEnd THEN WrapInt(s.Ival.End + 1) ELSE s.Ival.End
         IN  IF end <= start
             THEN ParseResult(ZeroInterval, StateError(NoErr))
             ELSE ParseResult(Interval(start, end), NoErr)

(***************************************************************************)
(* Package nelson: CommandError and ExitControl (errors.go)                *)
(***************************************************************************)

\* The nil error, and the nil *CommandError.
NilError == [kind |-> "nil"]

\* An error of another type: errors.New when inner is nil, fmt.Errorf with
\* %w around inner otherwise.
PlainError(inner) == [kind |-> "plain", Err |-> inner]

\* &CommandError{Err: err, Code: code, Usage: usage}
CommandError(err, code, usage) ==
    [kind |-> "CommandError", Err |-> err, Code |-> code, Usage |-> usage]

\* The exit codes of the commands.
Codes == {0, 1, 5}

\* The exit code of an error that is not a CommandError.
DefaultCode == 1

\* (code, usage), the result of ExitControl.
ExitResult(code, usage) == [done |-> TRUE, code |-> code, usage |-> usage]
NoExit == [done |-> FALSE, code |-> 0, usage |-> FALSE]

\* The errors that wrap at most n errors
MaxChain == 3
RECURSIVE ErrorsOfDepth(_)
ErrorsOfDepth(n) ==
    IF n = 0
    THEN {NilError}
    ELSE LET inner == ErrorsOfDepth(n - 1) IN
         inner
         \cup {PlainError(e) : e \in inner}
         \cup {CommandError(e, c, u) : e \in inner, c \in Codes, u \in BOOLEAN}

(***************************************************************************)
(* Package nelson: Command and its wrappers (command.go)                   *)
(***************************************************************************)

\* The nil ICommand.
NoCommand == [kind |-> "nil"]

\* &Command{...}
Command(summary, description, group, subcommands, defaults) ==
    [kind |-> "Command", Summary |-> summary, Description |-> description,
     Group |-> group, Subcommands |-> subcommands, Defaults |-> defaults]

\* Hidden(cmd), Deprecated(cmd, alt), Alias(cmd)
Hidden(cmd) == [kind |-> "Hidden", Wrapped |-> cmd]
Deprecated(cmd, alt) == [kind |-> "Deprecated", Wrapped |-> cmd, Alternative |-> alt]
Alias(cmd) == [kind |-> "Alias", Wrapped |-> cmd]

\* Unwrap of the three wrappers.
Unwrap(c) == c.Wrapped

RECURSIVE GetSummary(_)
GetSummary(c) ==
    CASE c.kind = "Command" -> c.Summary
      [] c.kind = "Hidden" -> GetSummary(c.Wrapped)
      [] c.kind = "Deprecated" -> GetSummary(c.Wrapped)
      [] c.kind = "Alias" -> GetSummary(c.Wrapped)

RECURSIVE GetDescription(_)
GetDescription(c) ==
    CASE c.kind = "Command" -> c.Description
      [] c.kind = "Hidden" -> GetDescription(c.Wrapped)
      [] c.kind = "Deprecated" -> GetDescription(c.Wrapped)
      [] c.kind = "Alias" -> GetDescription(c.Wrapped)

\* A Deprecated wrapper that gives its Alternative as the group.
RECURSIVE GetGroupAlternative(_)
GetGroupAlternative(c) ==
    CASE c.kind = "Command" -> c.Group
      [] c.kind = "Hidden" -> GetGroupAlternative(c.Wrapped)
      [] c.kind = "Deprecated" -> c.Alternative
      [] c.kind = "Alias" -> GetGroupAlternative(c.Wrapped)

RECURSIVE GetGroup(_)
GetGroup(c) ==
    CASE c.kind = "Command" -> c.Group
      [] c.kind = "Hidden" -> GetGroup(c.Wrapped)
      [] c.kind = "Deprecated" -> GetGroup(c.Wrapped)
      [] c.kind = "Alias" -> GetGroup(c.Wrapped)

RECURSIVE GetSubcommands(_)
GetSubcommands(c) ==
    CASE c.kind = "Command" -> c.Subcommands
      [] c.kind = "Hidden" -> GetSubcommands(c.Wrapped)
      [] c.kind = "Deprecated" -> GetSubcommands(c.Wrapped)
      [] c.kind = "Alias" -> GetSubcommands(c.Wrapped)

RECURSIVE GetDefaults(_)
GetDefaults(c) ==
    CASE c.kind = "Command" -> c.Defaults
      [] c.kind = "Hidden" -> GetDefaults(c.Wrapped)
      [] c.kind = "Deprecated" -> GetDefaults(c.Wrapped)
      [] c.kind = "Alias" -> GetDefaults(c.Wrapped)

(***************************************************************************)
(* The state machine: a caller applying the operations to one Injector.    *)
(* Any number of operations run; one of them may be put under observation, *)
(* which records what it was given, what it returned, the calls it made    *)
(* and the state it started from, and ends the run.                        *)
(***************************************************************************)

\* The Injector and the history before an operation.
Pre ==
    [Objects |-> Objects, Vivifiers |-> Vivifiers, Fallback |-> Fallback,
     vivified |-> vivified]

\* The Vivify calls of a trace after which Get returned a value.
Vivified(calls) == {j \in DOMAIN calls : IsValid(calls[j].val)}

\* type -> value, for the values the Vivify calls of a trace produced.
NewVivified(calls) ==
    [t \in {calls[j].typ : j \in Vivified(calls)} |->
        LET j == CHOOSE j \in Vivified(calls) :
                    /\ calls[j].typ = t
                    /\ \A k \in Vivified(calls) : calls[k].typ = t => j <= k
        IN calls[j].val]

\* No operation has been observed yet: the run goes on.
Running == obs.op = "none"

\* The observation before any operation is observed.
NoObs ==
    [op |-> "none", typ |-> "invalid", arg |-> ZeroValue, viv |-> NoVivifier,
     meth |-> NoMethod, name |-> "", val |-> ZeroValue, err |-> NoErr,
     panic |-> FALSE, gets |-> <<>>, calls |-> <<>>, invoked |-> <<>>,
     owner |-> "nil", ret |-> NoReturn, obj |-> NilObj, token |-> NilToken,
     pre |-> [Objects |-> NilMap, Vivifiers |-> NilMap, Fallback |-> NoVivifier,
              vivified |-> <<>>]]

\* The operation o, with the fields of the observation that describe its
\* inputs filled in, ended as r: the Injector takes the state r leaves, the
\* history is extended, and the operation is observed or not.
Finish(o, r, gets, invoked) ==
    /\ Objects' = r.inj.Objects
    /\ Vivifiers' = r.inj.Vivifiers
    /\ Fallback' = r.inj.Fallback
    /\ vivified' = vivified @@ NewVivified(r.calls)
    /\ UNCHANGED notInjVars
    /\ \E watch \in BOOLEAN :
          obs' = IF watch
                 THEN [o EXCEPT !.val = r.val, !.err = r.err, !.panic = r.panic,
                                !.gets = gets, !.calls = r.calls,
                                !.invoked = invoked, !.pre = Pre]
                 ELSE obs

\* An Injector literal: nil or empty maps, with or without a fallback.
EmptyMap == [isNil |-> FALSE, m |-> <<>>]

\* The variables of a package that is not in use stay at these values.
InjIdle ==
    /\ Objects = NilMap
    /\ Vivifiers = NilMap
    /\ Fallback = NoVivifier
    /\ vivified = <<>>
    /\ obs = NoObs

DepIdle ==
    /\ depMethod = NilMethod
    /\ dobs = NoDepObs

IvIdle ==
    /\ ivText = <<>>
    /\ ivState = NoState
    /\ ivIdx = 0
    /\ ivPc = "idle"
    /\ ivCalls = <<>>
    /\ ivErr = NoErr
    /\ ivResult = NoResult
    /\ ivFrom = NoInterval

ExIdle ==
    /\ exErr = NilError
    /\ exCur = NilError
    /\ exPc = "idle"
    /\ exTmp = NilError
    /\ exOut = NoExit

CmdIdle ==
    /\ cmdObj = NoCommand
    /\ cmdArg = NoCommand

MgIdle ==
    /\ mgD = <<>>
    /\ mgOther = <<>>
    /\ mgPre = NoMerge

Init ==
    /\ Objects \in {NilMap, EmptyMap}
    /\ Vivifiers \in {NilMap, EmptyMap}
    /\ Fallback \in {NoVivifier, FallbackId}
    /\ vivified = <<>>
    /\ obs = NoObs
    /\ DepIdle
    /\ IvIdle
    /\ ExIdle
    /\ CmdIdle
    /\ MgIdle

\* The type the iface token of AddInterface stands for, if any.
InterfaceType(iface) ==
    IF iface.form = "value"
    THEN IF Kind(iface.typ) = "Ptr" THEN Elem(iface.typ) ELSE "invalid"
    ELSE iface.typ

DoAdd ==
    /\ Running
    /\ \E obj \in Objs :
           Finish([NoObs EXCEPT !.op = "Add", !.typ = Reflect(obj).typ, !.arg = Reflect(obj),
                                !.obj = obj],
                  Add(Inj, obj), <<>>, <<>>)

DoAddInterface ==
    /\ Running
    /\ \E iface \in Tokens, obj \in Objs :
           Finish([NoObs EXCEPT !.op = "AddInterface", !.typ = InterfaceType(iface),
                                !.arg = Reflect(obj), !.obj = obj, !.token = iface],
                  AddInterface(Inj, iface, obj), <<>>, <<>>)

\* The tokens handed to AddVivifier.
VivifierTokens ==
    {NilToken,
     [form |-> "value", typ |-> "string"],
     [form |-> "type", typ |-> "string"],
     [form |-> "value", typ |-> "*iTrialInterface"],
     [form |-> "type", typ |-> "iTrialInterface"],
     [form |-> "type", typ |-> "*iTrialInterface"]}

DoAddVivifier ==
    /\ Running
    /\ \E obj \in VivifierTokens, viv \in VivIds \cup {NoVivifier} :
           Finish([NoObs EXCEPT !.op = "AddVivifier", !.typ = VivifierType(obj), !.viv = viv,
                                !.token = obj],
                  AddVivifier(Inj, obj, viv), <<>>, <<>>)

DoGet ==
    /\ Running
    /\ \E typ \in Types, out \in Outcomes :
           Finish([NoObs EXCEPT !.op = "Get", !.typ = typ],
                  Get(Inj, typ, out), <<typ>>, <<>>)

DoCallMethod ==
    /\ Running
    /\ \E meth \in Methods \cup {NoMethod, NotFunc} :
           \E r \in CallMethod(Inj, meth) :
               Finish([NoObs EXCEPT !.op = "CallMethod", !.meth = meth, !.ret = r.ret],
                      r, r.gets, r.invoked)

DoCall ==
    /\ Running
    /\ \E obj \in Owners, method \in MethodNames \cup {"NoMethod"} :
           \E r \in Call(Inj, obj, method) :
               Finish([NoObs EXCEPT !.op = "Call", !.name = method, !.owner = obj,
                                    !.ret = r.ret,
                                    !.meth = IF obj = NilOwner THEN NoMethod
                                             ELSE MethodByName(obj, method)],
                      r, r.gets, r.invoked)

Next ==
    \/ DoAdd
    \/ DoAddInterface
    \/ DoAddVivifier
    \/ DoGet
    \/ DoCallMethod
    \/ DoCall

Spec == Init /\ [][Next]_vars

(***************************************************************************)
(* The state machine of depinject: a caller building a Method with New and *)
(* calling it with inputs of its choice.                                   *)
(***************************************************************************)

DepInit ==
    /\ InjIdle
    /\ depMethod = NilMethod
    /\ dobs = NoDepObs
    /\ IvIdle
    /\ ExIdle
    /\ CmdIdle
    /\ MgIdle

\* result, err := New(obj, method); the caller keeps a Method it was given.
DoNew ==
    \E obj \in Owners, name \in MethodNames \cup {"NoMethod"} :
        LET r == New(obj, name) IN
        /\ depMethod' = IF r.err = NoErr THEN r.m ELSE depMethod
        /\ dobs' = [NoDepObs EXCEPT !.op = "New", !.owner = obj, !.name = name,
                                    !.m = r.m, !.err = r.err]
        /\ UNCHANGED notDepVars

\* err := m.Call(inputs), on a Method that New returned.
DoMethodCall ==
    /\ ~depMethod.isNil
    /\ \E inputs \in Inputs, ret \in Returns :
           LET r == MethodCall(depMethod, inputs, ret) IN
           /\ dobs' = [NoDepObs EXCEPT !.op = "Call", !.name = depMethod.Name,
                                       !.m = depMethod, !.inputs = inputs,
                                       !.err = r.err, !.panic = r.panic,
                                       !.invoked = r.invoked, !.ret = r.ret]
           /\ UNCHANGED depMethod
           /\ UNCHANGED notDepVars

DepNext ==
    \/ DoNew
    \/ DoMethodCall

DepSpec == DepInit /\ [][DepNext]_vars

(***************************************************************************)
(* The state machine of parsing: interval.Parse on a text, which runs      *)
(* parser.Parse with the state of package interval, or parser.Parse on a   *)
(* text with a State of the caller's own.                                  *)
(***************************************************************************)

\* The texts handed to interval.Parse: an opener, a number, a separator, a
\* number, a closer and something after it, each of them right, wrong or
\* missing.
Openers == {<<"[">>, <<"(">>, <<"x">>, <<>>}
Numbers ==
    {Decimal(n) : n \in (MinInt64 - 1)..(MaxInt64 + 1)}
    \cup {<<>>, <<"+", "1">>, <<"-">>, <<ArabicThree>>}
Separators == {<<",">>, <<"x">>, <<>>}
Closers == {<<"]">>, <<")">>, <<>>}
Trailers == {<<>>, <<"]">>, <<"x">>}

Texts ==
    {o \o a \o p \o b \o c \o t :
        o \in Openers, a \in Numbers, p \in Separators, b \in Numbers,
        c \in Closers, t \in Trailers}

\* The texts handed to parser.Parse with a State of the caller's own.
MaxMockLen == 3
MockChars == {"a", "b", ArabicThree}
MockTexts == UNION {[1..n -> MockChars] : n \in 0..MaxMockLen}

IvInit ==
    /\ InjIdle
    /\ DepIdle
    /\ ExIdle
    /\ CmdIdle
    /\ MgIdle
    /\ \/ /\ ivText \in Texts
          /\ ivState = NoState
          /\ ivPc = "Parse"
          /\ ivFrom = NoInterval
       \/ /\ ivText \in MockTexts
          /\ ivState \in {MockState(k) : k \in 0..(MaxMockLen + 1)}
          /\ ivPc = "loop"
          /\ ivFrom = NoInterval
       \/ /\ ivText = <<>>
          /\ ivState = NoState
          /\ ivPc = "String"
          /\ ivFrom \in {Given(Interval(a, b)) : a \in Ints, b \in Ints}
    /\ ivIdx = 1
    /\ ivCalls = <<>>
    /\ ivErr = NoErr
    /\ ivResult = NoResult

\* text := iv.String(), for the text handed to interval.Parse.
IntervalString ==
    /\ ivPc = "String"
    /\ ivText' = String(ivFrom.ival)
    /\ ivPc' = "Parse"
    /\ UNCHANGED <<ivState, ivIdx, ivCalls, ivErr, ivResult, ivFrom>>
    /\ UNCHANGED notIvVars

\* interval.Parse, up to its call of parser.Parse: the state is constructed
\* and a text of fewer than two bytes is refused.
IntervalParse ==
    /\ ivPc = "Parse"
    /\ ivState' = NewState
    /\ IF ByteLen(ivText) < 2
       THEN /\ ivResult' = ParseResult(ZeroInterval, StateError(NoErr))
            /\ ivPc' = "done"
       ELSE /\ ivResult' = ivResult
            /\ ivPc' = "loop"
    /\ UNCHANGED <<ivText, ivIdx, ivCalls, ivErr>>
    /\ UNCHANGED <<ivFrom, notIvVars>>

\* The loop of parser.Parse that goes on after a call has failed.
ParserLoopNoStop ==
    /\ ivPc = "loop"
    /\ ivIdx <= Len(ivText)
    /\ LET pos == Offset(ivText, ivIdx)
           char == ivText[ivIdx]
           r == CallState(ivState, ivText, pos, char, Len(ivCalls) + 1)
       IN  /\ ivCalls' = Append(ivCalls, [pos |-> pos, char |-> char])
           /\ ivState' = r.s
           /\ ivErr' = IF r.err # NoErr THEN r.err ELSE ivErr
           /\ ivPc' = ivPc
           /\ ivIdx' = ivIdx + 1
    /\ UNCHANGED <<ivText, ivResult>>
    /\ UNCHANGED <<ivFrom, notIvVars>>

\* for pos, char := range text { if err := s.Parse(pos, char); err != nil
\* { return err } }: one turn of the loop of parser.Parse.
ParserLoop ==
    /\ ivPc = "loop"
    /\ ivIdx <= Len(ivText)
    /\ LET pos == Offset(ivText, ivIdx)
           char == ivText[ivIdx]
           r == CallState(ivState, ivText, pos, char, Len(ivCalls) + 1)
       IN  /\ ivCalls' = Append(ivCalls, [pos |-> pos, char |-> char])
           /\ ivState' = r.s
           /\ IF r.err # NoErr
              THEN ivErr' = r.err /\ ivPc' = "returned" /\ ivIdx' = ivIdx
              ELSE ivErr' = ivErr /\ ivPc' = ivPc /\ ivIdx' = ivIdx + 1
    /\ UNCHANGED <<ivText, ivResult>>
    /\ UNCHANGED <<ivFrom, notIvVars>>

\* return nil, at the end of the loop of parser.Parse.
ParserReturn ==
    /\ ivPc = "loop"
    /\ ivIdx > Len(ivText)
    /\ ivErr' = NoErr
    /\ ivPc' = "returned"
    /\ UNCHANGED <<ivText, ivState, ivIdx, ivCalls, ivResult>>
    /\ UNCHANGED <<ivFrom, notIvVars>>

\* interval.Parse, from the return of parser.Parse on.
IntervalReturn ==
    /\ ivPc = "returned"
    /\ ivState.kind = "interval"
    /\ ivResult' = Canonicalize(ivState, ivErr)
    /\ ivPc' = "done"
    /\ UNCHANGED <<ivText, ivState, ivIdx, ivCalls, ivErr>>
    /\ UNCHANGED <<ivFrom, notIvVars>>

IvNext ==
    \/ IntervalString
    \/ IntervalParse
    \/ ParserLoop
    \/ ParserReturn
    \/ IntervalReturn

IvSpec == IvInit /\ [][IvNext]_vars

(***************************************************************************)
(* The state machine of exit control: ExitControl on an error, which runs  *)
(* errors.As down the chain of wrapped errors.                             *)
(***************************************************************************)

ExInit ==
    /\ InjIdle
    /\ DepIdle
    /\ IvIdle
    /\ CmdIdle
    /\ MgIdle
    /\ exErr \in ErrorsOfDepth(MaxChain)
    /\ exCur = exErr
    /\ exPc = "As"
    /\ exTmp = NilError
    /\ exOut = NoExit

\* errors.As that goes on down the chain after it has found a CommandError.
ErrorsAsLast ==
    /\ exPc = "As"
    /\ IF exCur = NilError
       THEN /\ exPc' = IF exTmp = NilError THEN "notfound" ELSE "found"
            /\ UNCHANGED <<exCur, exTmp>>
       ELSE /\ exTmp' = IF exCur.kind = "CommandError" THEN exCur ELSE exTmp
            /\ exCur' = exCur.Err
            /\ UNCHANGED exPc
    /\ UNCHANGED <<exErr, exOut>>
    /\ UNCHANGED notExVars

\* errors.As(err, &tmp), one error of the chain at a time: a *CommandError
\* is stored in tmp, an error of another type is unwrapped, and the search
\* fails at the end of the chain.
ErrorsAs ==
    /\ exPc = "As"
    /\ IF exCur = NilError
       THEN /\ exPc' = "notfound"
            /\ UNCHANGED <<exCur, exTmp>>
       ELSE IF exCur.kind = "CommandError"
       THEN /\ exTmp' = exCur
            /\ exPc' = "found"
            /\ UNCHANGED exCur
       ELSE /\ exCur' = exCur.Err
            /\ UNCHANGED <<exPc, exTmp>>
    /\ UNCHANGED <<exErr, exOut>>
    /\ UNCHANGED notExVars

\* return tmp.Code, tmp.Usage, or return 1, false.
ExitControlReturn ==
    /\ exPc \in {"found", "notfound"}
    /\ exOut' = IF exPc = "found"
                THEN ExitResult(exTmp.Code, exTmp.Usage)
                ELSE ExitResult(DefaultCode, FALSE)
    /\ exPc' = "done"
    /\ UNCHANGED <<exErr, exCur, exTmp>>
    /\ UNCHANGED notExVars

ExNext ==
    \/ ErrorsAs
    \/ ExitControlReturn

ExSpec == ExInit /\ [][ExNext]_vars

(***************************************************************************)
(* The state machine of the commands: a caller that declares a Command and *)
(* wraps it with Hidden, Deprecated and Alias.                             *)
(***************************************************************************)

Summaries == {"", "summary"}
Descriptions == {"", "description"}
Groups == {"", "group"}
SubcommandMaps == {"nil map", "subcommands"}
DefaultValues == {"nil", "defaults"}
Alternatives == {"", "alternative"}

Commands ==
    {Command(s, d, g, m, v) :
        s \in Summaries, d \in Descriptions, g \in Groups,
        m \in SubcommandMaps, v \in DefaultValues}

\* The number of wrappers around a command.
MaxDepth == 2
RECURSIVE Depth(_)
Depth(c) == IF c.kind \in {"Command", "nil"} THEN 0 ELSE 1 + Depth(c.Wrapped)

CmdInit ==
    /\ InjIdle
    /\ DepIdle
    /\ IvIdle
    /\ ExIdle
    /\ MgIdle
    /\ cmdObj \in Commands
    /\ cmdArg = NoCommand

\* cmdObj = Hidden(cmdObj)
DoHidden ==
    /\ Depth(cmdObj) < MaxDepth
    /\ cmdArg' = cmdObj
    /\ cmdObj' = Hidden(cmdObj)
    /\ UNCHANGED notCmdVars

\* cmdObj = Deprecated(cmdObj, alt)
DoDeprecated ==
    /\ Depth(cmdObj) < MaxDepth
    /\ \E alt \in Alternatives :
          /\ cmdArg' = cmdObj
          /\ cmdObj' = Deprecated(cmdObj, alt)
    /\ UNCHANGED notCmdVars

\* cmdObj = Alias(cmdObj)
DoAlias ==
    /\ Depth(cmdObj) < MaxDepth
    /\ cmdArg' = cmdObj
    /\ cmdObj' = Alias(cmdObj)
    /\ UNCHANGED notCmdVars

CmdNext ==
    \/ DoHidden
    \/ DoDeprecated
    \/ DoAlias

CmdSpec == CmdInit /\ [][CmdNext]_vars

(***************************************************************************)
(* The state machine of Deps: a caller that holds two Deps maps and merges *)
(* one into the other, either way, any number of times.                    *)
(***************************************************************************)

MgInit ==
    /\ InjIdle
    /\ DepIdle
    /\ IvIdle
    /\ ExIdle
    /\ CmdIdle
    /\ mgD \in DepsSet
    /\ mgOther \in DepsSet
    /\ mgPre = NoMerge

\* d.Merge(other)
DoMerge ==
    /\ mgPre' = MergeOf("d", mgD, mgOther)
    /\ mgD' = Merge(mgD, mgOther)
    /\ mgOther' = mgOther
    /\ UNCHANGED notMgVars

\* other.Merge(d)
DoMergeBack ==
    /\ mgPre' = MergeOf("other", mgOther, mgD)
    /\ mgOther' = Merge(mgOther, mgD)
    /\ mgD' = mgD
    /\ UNCHANGED notMgVars

MgNext ==
    \/ DoMerge
    \/ DoMergeBack

MgSpec == MgInit /\ [][MgNext]_vars

(***************************************************************************)
(* Properties                                                              *)
(***************************************************************************)

\* The observed operation left Objects, Vivifiers and Fallback as they were.
RegistryUnchanged ==
    /\ Objects = obs.pre.Objects
    /\ Vivifiers = obs.pre.Vivifiers
    /\ Fallback = obs.pre.Fallback

\* The observed operation is a Call or a CallMethod.
ObservedCall == obs.op \in {"Call", "CallMethod"}

\* The observed call made no Get, invoked neither a vivifier nor the target,
\* and left the registry as it was.
NothingDone ==
    /\ obs.gets = <<>>
    /\ obs.calls = <<>>
    /\ obs.invoked = <<>>
    /\ ~obs.panic
    /\ RegistryUnchanged

\* A method handle whose shape CallMethod supports.
Supported(meth) ==
    /\ meth.valid
    /\ meth.kind = "Func"
    /\ ~meth.variadic
    /\ meth.out \in {<<>>, <<"error">>}

\* C1: Get resolves in the order cached slot, type-specific vivifier,
\* fallback vivifier, failure: a cached slot is returned without any Vivify
\* call; with no slot and a vivifier for the type, that vivifier alone is
\* invoked, fallback or not; the fallback is invoked only when there is
\* neither; with none of the three Get fails with ErrMissingValue and the
\* registry is unchanged.
C1_ResolutionOrder ==
    obs.op = "Get" =>
        IF Has(obs.pre.Objects, obs.typ)
        THEN /\ obs.calls = <<>>
             /\ obs.val = obs.pre.Objects.m[obs.typ]
             /\ obs.err = NoErr /\ ~obs.panic
             /\ RegistryUnchanged
        ELSE IF Has(obs.pre.Vivifiers, obs.typ)
        THEN /\ Len(obs.calls) = 1
             /\ obs.calls[1].viv = obs.pre.Vivifiers.m[obs.typ]
             /\ obs.calls[1].typ = obs.typ
        ELSE IF obs.pre.Fallback # NoVivifier
        THEN /\ Len(obs.calls) = 1
             /\ obs.calls[1].viv = obs.pre.Fallback
             /\ obs.calls[1].typ = obs.typ
        ELSE /\ obs.calls = <<>>
             /\ obs.err = Wrap(ErrMissingValue, obs.typ)
             /\ ~IsValid(obs.val) /\ ~obs.panic
             /\ RegistryUnchanged

\* A Get with no slot, a type-specific vivifier and a fallback, which got
\* its value from the type-specific vivifier.
C1_Witness ==
    /\ obs.op = "Get"
    /\ ~Has(obs.pre.Objects, obs.typ)
    /\ Has(obs.pre.Vivifiers, obs.typ)
    /\ obs.pre.Fallback # NoVivifier
    /\ Len(obs.calls) = 1
    /\ obs.calls[1].viv \in VivIds
    /\ IsValid(obs.val)

\* C2: once a Get for a type has returned a value obtained from a vivifier,
\* every later Get for that type, whatever operations ran in between,
\* returns that same value and invokes no vivifier.
C2_VivifiedValueStays ==
    (obs.op = "Get" /\ obs.typ \in DOMAIN obs.pre.vivified) =>
        /\ obs.calls = <<>>
        /\ obs.val = obs.pre.vivified[obs.typ]
        /\ obs.err = NoErr /\ ~obs.panic

\* A Get for a type whose value an earlier Get had obtained from a vivifier.
C2_Witness ==
    /\ obs.op = "Get"
    /\ obs.typ \in DOMAIN obs.pre.vivified
    /\ obs.val = obs.pre.vivified[obs.typ]
    /\ obs.pre.vivified[obs.typ].typ = "trialInterface"

\* C3 as claimed: for a type with a vivifier (type-specific or fallback), two
\* Get calls in a row invoke the vivifier at most once and return the
\* identical value.
C3_NeverInvokedTwice ==
    (/\ obs.op = "Get"
     /\ \/ Has(obs.pre.Vivifiers, obs.typ)
        \/ obs.pre.Fallback # NoVivifier) =>
        \A out \in Outcomes :
            LET again == Get(Inj, obs.typ, out) IN
            /\ Len(obs.calls) + Len(again.calls) <= 1
            /\ again.val = obs.val

\* C3 as amended: no vivifier is invoked for a type after a vivifier has
\* produced its value.  No operation invokes a vivifier for a type whose
\* value an earlier Get obtained from a vivifier, nor two vivifiers for the
\* same type; and after a Get that obtained its value from a vivifier, a
\* second Get invokes none and returns the identical value.
C3_NotInvokedAfterSuccess ==
    /\ \A j \in DOMAIN obs.calls :
          /\ obs.calls[j].typ \notin DOMAIN obs.pre.vivified
          /\ \A k \in DOMAIN obs.calls : obs.calls[k].typ = obs.calls[j].typ => k = j
    /\ (obs.op = "Get" /\ obs.calls # <<>> /\ obs.err = NoErr /\ ~obs.panic) =>
          \A out \in Outcomes :
              LET again == Get(Inj, obs.typ, out) IN
              /\ again.calls = <<>>
              /\ again.val = obs.val
              /\ again.err = NoErr /\ ~again.panic

\* A call that asked Get twice for the same type: the vivifier was invoked
\* once and the target received the one value at both positions.
C3_Witness ==
    /\ obs.op = "CallMethod"
    /\ obs.gets = <<"string", "string">>
    /\ Len(obs.calls) = 1
    /\ obs.calls[1].viv \in VivIds
    /\ obs.invoked = << <<obs.calls[1].val, obs.calls[1].val>> >>

\* C4: when the vivifier returns an error, Get returns it, creates no slot
\* and leaves the registry as it was; a following Get for the type invokes
\* the same vivifier again and, when the vivifier answers as before, fails
\* the same way.
C4_FailureNotMemoized ==
    (obs.op = "Get" /\ obs.calls # <<>> /\ obs.calls[1].out.err # NoErr) =>
        /\ obs.err = obs.calls[1].out.err
        /\ ~IsValid(obs.val) /\ ~obs.panic
        /\ ~Has(Objects, obs.typ)
        /\ RegistryUnchanged
        /\ \A out \in Outcomes :
              LET again == Get(Inj, obs.typ, out) IN
              /\ Len(again.calls) = 1
              /\ again.calls[1].viv = obs.calls[1].viv
              /\ again.calls[1].typ = obs.typ
              /\ out = obs.calls[1].out =>
                    /\ again.err = obs.err
                    /\ again.val = obs.val
                    /\ again.inj = Inj

\* A Get whose vivifier returned an error together with an object.
C4_Witness ==
    /\ obs.op = "Get"
    /\ obs.calls # <<>>
    /\ obs.calls[1].out.err = AnError
    /\ obs.calls[1].out.obj.form = "plain"
    /\ obs.err = AnError

\* C5: a call resolves the parameters in declaration order and stops at the
\* first one whose Get fails: the Gets made are those for the parameters up
\* to the failing one, in order; no vivifier is invoked and no slot is
\* created for a later parameter; the target is not invoked; and the call
\* ends as the failing Get ended.
C5_AbortAtFirstFailure ==
    (ObservedCall /\ Supported(obs.meth)) =>
        LET ins == obs.meth.in
            k == Len(obs.gets)
        IN
        /\ k <= Len(ins)
        /\ obs.gets = SubSeq(ins, 1, k)
        /\ \A j \in DOMAIN obs.calls : \E i \in 1..k : obs.calls[j].typ = ins[i]
        /\ obs.invoked # <<>> => k = Len(ins)
        /\ obs.invoked = <<>> =>
              /\ k >= 1
              /\ obs.err # NoErr \/ obs.panic
              /\ \E out \in Outcomes :
                    LET g == Get(Inj, ins[k], out) IN
                    /\ g.err = obs.err
                    /\ g.panic = obs.panic
                    /\ \/ g.calls = <<>>
                       \/ /\ obs.calls # <<>>
                          /\ g.calls[1] = obs.calls[Len(obs.calls)]
              /\ \A j \in (k + 1)..Len(ins) :
                    (Has(Objects, ins[j]) /\ ~Has(obs.pre.Objects, ins[j])) =>
                        \E i \in 1..(k - 1) : ins[i] = ins[j]

\* A call on a method of two parameters that stopped at the first, whose
\* vivifier returned an error, although the second could have been vivified.
C5_Witness ==
    /\ obs.op = "CallMethod"
    /\ Len(obs.meth.in) = 2
    /\ Len(obs.gets) = 1
    /\ obs.invoked = <<>>
    /\ obs.err = AnError
    /\ ~Has(Objects, obs.meth.in[2])
    /\ Has(obs.pre.Vivifiers, obs.meth.in[2]) \/ obs.pre.Fallback # NoVivifier

\* C6 as claimed: after any operation that returned an error, Objects,
\* Vivifiers and Fallback are exactly what they were before the call.
C6_FailedOpChangesNothing ==
    obs.err # NoErr => RegistryUnchanged

\* The types that have a slot now and had none before the observed operation.
NewSlots == {t \in DOMAIN Objects.m : ~Has(obs.pre.Objects, t)}

\* C6 as amended: a failed Add, AddInterface, AddVivifier or Get leaves
\* Objects, Vivifiers and Fallback exactly as they were.  A failed Call or
\* CallMethod leaves Vivifiers and Fallback as they were and every existing
\* slot with its value; the only slots it adds are those its Gets vivified
\* before the failure, none for the parameter whose Get failed, and none at
\* all when it made no Get.
C6_FailedOpEffects ==
    obs.err # NoErr =>
        /\ Vivifiers = obs.pre.Vivifiers
        /\ Fallback = obs.pre.Fallback
        /\ ~ObservedCall => Objects = obs.pre.Objects
        /\ ObservedCall =>
              /\ \A t \in Types :
                    Has(obs.pre.Objects, t) =>
                        Has(Objects, t) /\ Objects.m[t] = obs.pre.Objects.m[t]
              /\ \A t \in NewSlots :
                    \E j \in DOMAIN obs.calls :
                        /\ obs.calls[j].typ = t
                        /\ obs.calls[j].val = Objects.m[t]
              /\ (obs.invoked = <<>> /\ obs.gets # <<>>) =>
                    obs.gets[Len(obs.gets)] \notin NewSlots
              /\ NewSlots = {} => Objects = obs.pre.Objects

\* A CallMethod that failed on its second parameter and left behind the
\* slot it had vivified for the first.
C6_Witness ==
    /\ obs.op = "CallMethod"
    /\ obs.err # NoErr
    /\ obs.invoked = <<>>
    /\ Len(obs.gets) = 2
    /\ NewSlots = {obs.gets[1]}

\* An Add, or an AddInterface with an interface token, of a valid value for
\* a type that has a slot.
AddsToTakenSlot ==
    /\ obs.op \in {"Add", "AddInterface"}
    /\ IsValid(obs.arg)
    /\ obs.op = "AddInterface" => Kind(obs.typ) = "Interface"
    /\ Has(obs.pre.Objects, obs.typ)

\* C7 as claimed: Add or AddInterface for a type that has a slot always
\* fails with ErrDuplicate and leaves the registry as it was.
C7_AlwaysDuplicate ==
    AddsToTakenSlot =>
        /\ obs.err.is = "ErrDuplicate"
        /\ RegistryUnchanged

\* C7 as amended: Add or AddInterface for a type that has a slot always
\* fails and leaves the registry, and so the value registered first, as it
\* was; it fails with ErrDuplicate when the value is assignable to the type
\* (as it always is for Add), and with ErrBadType when AddInterface is
\* given a value that does not implement the interface.
C7_DuplicateRejected ==
    AddsToTakenSlot =>
        /\ ~obs.panic
        /\ obs.err = IF AssignableTo(obs.arg.typ, obs.typ)
                     THEN Wrap(ErrDuplicate, obs.typ)
                     ELSE Wrap(ErrBadType, obs.typ)
        /\ obs.op = "Add" => obs.err.is = "ErrDuplicate"
        /\ Objects.m[obs.typ] = obs.pre.Objects.m[obs.typ]
        /\ RegistryUnchanged

\* An AddInterface of a second, different value that implements the
\* interface, rejected as a duplicate.
C7_Witness ==
    /\ obs.op = "AddInterface"
    /\ AddsToTakenSlot
    /\ obs.err.is = "ErrDuplicate"
    /\ obs.arg # obs.pre.Objects.m[obs.typ]

\* C8: slot population is monotonic: in every step, a type that has a slot
\* keeps it, with the same value.  (That a type has at most one slot is the
\* shape of Objects, a map.)
C8_SlotsMonotonic ==
    [][\A t \in Types :
          Has(Objects, t) => (Has(Objects', t) /\ Objects'.m[t] = Objects.m[t])]_vars

\* An Add of a second, different value for a type whose slot kept its value.
C8_Witness ==
    /\ obs.op = "Add"
    /\ Has(obs.pre.Objects, obs.typ)
    /\ obs.arg # obs.pre.Objects.m[obs.typ]
    /\ Objects.m[obs.typ] = obs.pre.Objects.m[obs.typ]

\* C9: CallMethod validates the handle before it resolves anything: an
\* invalid handle fails with ErrNoMethod; a value that is no function, a
\* variadic method, a method with more than one result or with one result
\* that is not an error fails with ErrBadMethod; in each case no Get is
\* made, no vivifier and no target is invoked, and the registry is unchanged.
C9_ValidationFirst ==
    obs.op = "CallMethod" =>
        /\ ~obs.meth.valid => (obs.err = ErrNoMethod /\ NothingDone)
        /\ (obs.meth.valid /\ ~Supported(obs.meth)) =>
              (obs.err = ErrBadMethod /\ NothingDone)

\* A CallMethod on a variadic method, rejected although the fallback could
\* have vivified its first parameter.
C9_Witness ==
    /\ obs.op = "CallMethod"
    /\ obs.meth.variadic
    /\ obs.err = ErrBadMethod
    /\ ~Has(obs.pre.Objects, obs.meth.in[1])
    /\ obs.pre.Fallback # NoVivifier

\* A method that declares two parameters of the same type.
SameTypeTwice(meth) ==
    \E i, j \in DOMAIN meth.in : i # j /\ meth.in[i] = meth.in[j]

\* C10: CallMethod, and Call through it, rejects a method that declares two
\* parameters of the same type with ErrBadMethod, before any parameter is
\* resolved and without invoking the target.
C10_SameTypeTwiceRejected ==
    (ObservedCall /\ Supported(obs.meth) /\ SameTypeTwice(obs.meth)) =>
        /\ obs.err.is = "ErrBadMethod"
        /\ obs.gets = <<>>
        /\ obs.invoked = <<>>

\* Every parameter type of the observed call's method was resolved: Get fails
\* only for a type without a slot and then creates none, so after the loop a
\* type has a slot exactly when its Get succeeded.
AllResolved ==
    /\ ObservedCall
    /\ Supported(obs.meth)
    /\ \A j \in DOMAIN obs.meth.in : Has(Objects, obs.meth.in[j])

\* C11: when every parameter type of a supported method resolves, CallMethod
\* invokes the target exactly once, the j-th argument being the registry's
\* value for the j-th declared parameter type; every value a vivifier
\* produced for the call is cached under its type, and a later Get for that
\* type returns that value without invoking any vivifier.
C11_InvokedOnceInOrder ==
    AllResolved =>
        /\ Len(obs.invoked) = 1
        /\ Len(obs.invoked[1]) = Len(obs.meth.in)
        /\ \A j \in DOMAIN obs.meth.in :
               obs.invoked[1][j] = Objects.m[obs.meth.in[j]]
        /\ obs.gets = obs.meth.in
        /\ \A k \in DOMAIN obs.calls :
               /\ IsValid(obs.calls[k].val)
               /\ Has(Objects, obs.calls[k].typ)
               /\ Objects.m[obs.calls[k].typ] = obs.calls[k].val
               /\ \A out \in Outcomes :
                      LET r == Get(Inj, obs.calls[k].typ, out) IN
                      /\ r.val = obs.calls[k].val
                      /\ r.err = NoErr
                      /\ r.calls = <<>>
                      /\ r.inj = Inj

\* A call of a method with two parameters of different types, the first
\* vivified for the call and the second taken from its slot.
C11_Witness ==
    /\ AllResolved
    /\ Len(obs.meth.in) = 2
    /\ obs.meth.in[1] # obs.meth.in[2]
    /\ Len(obs.invoked) = 1
    /\ Len(obs.calls) = 1
    /\ obs.calls[1].typ = obs.meth.in[1]
    /\ Has(obs.pre.Objects, obs.meth.in[2])
    /\ obs.invoked[1][1] # obs.invoked[1][2]

\* C12: for a target with an error result, CallMethod returns what the
\* target returned, whatever that is: the same error when it returns one and
\* nil when it returns nil; for a target without result it returns nil.
C12_TargetResultSurfaced ==
    (ObservedCall /\ Supported(obs.meth) /\ obs.invoked # <<>>) =>
        /\ ~obs.panic
        /\ obs.meth.out = <<"error">> => obs.err = obs.ret
        /\ obs.meth.out = <<>> => obs.err = NoErr

\* C13: an error returned by a vivifier, type-specific or fallback, is what
\* Get returns, and what a Call or CallMethod that needed the type returns:
\* the very error, not wrapped and not turned into an injector error; the
\* target is not invoked.
C13_VivifierErrorUnchanged ==
    \A k \in DOMAIN obs.calls :
        obs.calls[k].out.err # NoErr =>
            /\ obs.err = obs.calls[k].out.err
            /\ ~obs.panic
            /\ obs.val = ZeroValue
            /\ obs.invoked = <<>>
            /\ k = Len(obs.calls)

\* A CallMethod whose first parameter a type-specific vivifier produced and
\* whose second parameter the fallback failed to vivify: the Get for it
\* returned the fallback's error, and so did CallMethod.
C13_Witness ==
    /\ obs.op = "CallMethod"
    /\ Len(obs.gets) = 2
    /\ Len(obs.calls) = 2
    /\ obs.calls[1].viv \in VivIds
    /\ obs.calls[2].viv = FallbackId
    /\ obs.calls[2].out.err = OtherError
    /\ obs.err = OtherError

\* The Injector the observed operation started from.
PreInj ==
    [Objects |-> obs.pre.Objects, Vivifiers |-> obs.pre.Vivifiers,
     Fallback |-> obs.pre.Fallback]

\* The observed call as a result of Call or CallMethod: what it returned,
\* what it did, and the Injector it left.
ObservedResult ==
    [inj |-> Inj, val |-> ZeroValue, err |-> obs.err, panic |-> obs.panic,
     gets |-> obs.gets, calls |-> obs.calls, invoked |-> obs.invoked,
     ret |-> obs.ret]

\* C14: Call fails with ErrNoMethod when the owner is nil or has no method
\* of the name, and then makes no Get, invokes no vivifier and no target and
\* leaves the registry unchanged; otherwise what it returns and what it
\* does to the registry is what CallMethod on the looked-up method returns
\* and does.
C14_CallDelegates ==
    obs.op = "Call" =>
        IF obs.owner = NilOwner \/ obs.name \notin MethodNames
        THEN /\ obs.err.is = ErrNoMethod.is
             /\ IsInjectorError(obs.err)
             /\ NothingDone
        ELSE ObservedResult \in CallMethod(PreInj, MethodByName(obs.owner, obs.name))

\* A Call by name of a method with parameters, one of them vivified for the
\* call, that invoked the method.
C14_Witness ==
    /\ obs.op = "Call"
    /\ obs.owner # NilOwner
    /\ obs.name = "BasicErr"
    /\ Len(obs.invoked) = 1
    /\ Len(obs.calls) = 1
    /\ obs.err = AnError
    /\ Objects # obs.pre.Objects

\* The observed operation failed with ErrNil itself and changed nothing.
RejectedAsNil ==
    /\ obs.err = ErrNil
    /\ ~obs.panic
    /\ obs.calls = <<>>
    /\ RegistryUnchanged

\* C15: Add of nil, AddInterface of nil under any type token, and
\* AddVivifier of a nil vivifier under any type token each fail with ErrNil
\* and leave Objects, Vivifiers and Fallback as they were, whatever the
\* registry holds.
C15_NilRejectedFirst ==
    /\ (obs.op = "Add" /\ obs.obj = NilObj) => RejectedAsNil
    /\ (obs.op = "AddInterface" /\ obs.obj = NilObj) => RejectedAsNil
    /\ (obs.op = "AddVivifier" /\ obs.viv = NoVivifier) => RejectedAsNil

\* An AddInterface of nil whose type token is no pointer to an interface,
\* on a registry that already holds a value.
C15_Witness ==
    /\ obs.op = "AddInterface"
    /\ obs.obj = NilObj
    /\ Kind(InterfaceType(obs.token)) # "Interface"
    /\ obs.err = ErrNil
    /\ ~obs.pre.Objects.isNil
    /\ DOMAIN obs.pre.Objects.m # {}

\* C16: AddInterface of a value fails with ErrBadInterface when the token
\* names neither an interface type nor a pointer to one, with ErrBadType
\* when the value does not implement the named interface, and with
\* ErrDuplicate when the interface type already has a slot, the registry
\* staying as it was in each case; on success the value is filed under the
\* interface type and not under its own type.
C16_AddInterfaceOutcomes ==
    (obs.op = "AddInterface" /\ obs.obj # NilObj /\ IsValid(obs.arg)) =>
        LET typ == InterfaceType(obs.token) IN
        IF Kind(typ) # "Interface"
        THEN obs.err = ErrBadInterface /\ ~obs.panic /\ RegistryUnchanged
        ELSE IF ~AssignableTo(obs.arg.typ, typ)
        THEN obs.err.is = ErrBadType.is /\ ~obs.panic /\ RegistryUnchanged
        ELSE IF Has(obs.pre.Objects, typ)
        THEN obs.err.is = ErrDuplicate.is /\ ~obs.panic /\ RegistryUnchanged
        ELSE /\ obs.err = NoErr
             /\ ~obs.panic
             /\ Has(Objects, typ)
             /\ Objects.m[typ] = obs.arg
             /\ \A t \in Types \ {typ} : Has(Objects, t) <=> Has(obs.pre.Objects, t)
             /\ \A t \in Types \ {typ} : Has(Objects, t) => Objects.m[t] = obs.pre.Objects.m[t]
             /\ Vivifiers = obs.pre.Vivifiers
             /\ Fallback = obs.pre.Fallback

\* The Vivifiers entries other than the one for typ are as they were.
OtherVivifiersKept(typ) ==
    \A t \in TokenTypes \ {typ} :
        /\ Has(Vivifiers, t) <=> Has(obs.pre.Vivifiers, t)
        /\ Has(Vivifiers, t) => Vivifiers.m[t] = obs.pre.Vivifiers.m[t]

\* C17: AddVivifier of a vivifier for a type that already has one fails
\* with ErrDuplicate and the vivifier registered first stays; on success
\* the entry for the type is the only thing that changes: Objects and
\* Fallback are as before and no vivifier is invoked.
C17_VivifierDuplicate ==
    (obs.op = "AddVivifier" /\ obs.viv # NoVivifier /\ obs.token # NilToken) =>
        /\ ~obs.panic
        /\ obs.calls = <<>>
        /\ Objects = obs.pre.Objects
        /\ Fallback = obs.pre.Fallback
        /\ OtherVivifiersKept(obs.typ)
        /\ Has(Vivifiers, obs.typ)
        /\ IF Has(obs.pre.Vivifiers, obs.typ)
           THEN /\ obs.err.is = ErrDuplicate.is
                /\ IsInjectorError(obs.err)
                /\ Vivifiers = obs.pre.Vivifiers
           ELSE /\ obs.err = NoErr
                /\ Vivifiers.m[obs.typ] = obs.viv

\* An AddVivifier of a second, different vivifier for a type, rejected.
C17_Witness ==
    /\ obs.op = "AddVivifier"
    /\ obs.viv # NoVivifier
    /\ Has(obs.pre.Vivifiers, obs.typ)
    /\ obs.pre.Vivifiers.m[obs.typ] # obs.viv
    /\ obs.err.is = ErrDuplicate.is
    /\ Vivifiers.m[obs.typ] # obs.viv

\* An AddVivifier that succeeded with a token denoting a pointer to an
\* interface.
PointerTokenAdded ==
    /\ obs.op = "AddVivifier"
    /\ obs.token # NilToken
    /\ Kind(obs.token.typ) = "Ptr"
    /\ Kind(Elem(obs.token.typ)) = "Interface"
    /\ obs.err = NoErr
    /\ ~obs.panic

\* A Get for typ on the present registry asks the vivifier viv, unless typ
\* has a slot.
GetFinds(typ, viv) ==
    /\ Has(Vivifiers, typ)
    /\ Vivifiers.m[typ] = viv
    /\ ~Has(Objects, typ) =>
          \A out \in Outcomes :
              LET r == Get(Inj, typ, out) IN
              Len(r.calls) = 1 /\ r.calls[1].viv = viv

\* C18 as stated: AddVivifier given a token that denotes a pointer to an
\* interface files the vivifier under the interface type, whether the token
\* is a nil pointer value or a reflected type, so that a later Get for the
\* interface type finds it.
C18_PointerTokenResolved ==
    PointerTokenAdded => GetFinds(Elem(obs.token.typ), obs.viv)

\* C18, amended: a nil pointer to an interface given as the token files the
\* vivifier under the interface type, and a later Get for the interface
\* type finds it; a reflected pointer type given as the token files the
\* vivifier under the pointer type itself and leaves the entry for the
\* interface type as it was.
C18_TokenFormDecidesKey ==
    PointerTokenAdded =>
        IF obs.token.form = "value"
        THEN GetFinds(Elem(obs.token.typ), obs.viv)
        ELSE /\ GetFinds(obs.token.typ, obs.viv)
             /\ OtherVivifiersKept(obs.token.typ)

\* An AddVivifier given the reflected type of a pointer to an interface:
\* the interface type has no vivifier afterwards.
C18_Witness ==
    /\ PointerTokenAdded
    /\ obs.token.form = "type"
    /\ Has(Vivifiers, obs.token.typ)
    /\ ~Has(Vivifiers, Elem(obs.token.typ))

\* C19: New fails with depinject's ErrNoMethod for a nil owner or an unknown
\* name, and with ErrBadMethod for a variadic method, a method with more
\* than one result, a single result that is not an error, or two parameters
\* of the same type, returning a nil *Method each time; on success Args is
\* the list of parameter types in declaration order and Deps has exactly
\* those types as keys, each with the zero Value.
C19_NewOutcomes ==
    dobs.op = "New" =>
        LET meth == MethodByName(dobs.owner, dobs.name) IN
        IF dobs.owner = NilOwner \/ dobs.name \notin MethodNames
        THEN /\ dobs.err.is = DepErrNoMethod.is
             /\ IsError(dobs.err)
             /\ dobs.m = NilMethod
        ELSE IF \/ meth.variadic
                \/ Len(meth.out) > 1
                \/ (Len(meth.out) = 1 /\ meth.out[1] # "error")
                \/ SameTypeTwice(meth)
        THEN /\ dobs.err.is = DepErrBadMethod.is
             /\ IsError(dobs.err)
             /\ dobs.m = NilMethod
        ELSE /\ dobs.err = NoErr
             /\ ~dobs.m.isNil
             /\ dobs.m.Name = dobs.name
             /\ dobs.m.Method = meth
             /\ dobs.m.Args = meth.in
             /\ DOMAIN dobs.m.Deps = {meth.in[i] : i \in DOMAIN meth.in}
             /\ \A t \in DOMAIN dobs.m.Deps : dobs.m.Deps[t] = ZeroValue

\* A New on a method with two parameters of the same type, rejected while
\* the caller holds a Method from an earlier New on a method with two
\* parameters of different types.
C19_Witness ==
    /\ dobs.op = "New"
    /\ dobs.owner # NilOwner
    /\ SameTypeTwice(MethodByName(dobs.owner, dobs.name))
    /\ dobs.err.is = DepErrBadMethod.is
    /\ dobs.m = NilMethod
    /\ ~depMethod.isNil
    /\ Len(depMethod.Args) = 2
    /\ DOMAIN depMethod.Deps = {depMethod.Args[1], depMethod.Args[2]}

\* The positions of the arguments of the called Method whose input is
\* absent or unset.
MissingArgs ==
    {i \in DOMAIN dobs.m.Args : ~IsValid(Lookup(dobs.inputs, dobs.m.Args[i]))}

\* C20: Method.Call goes through the argument types in Args order; when the
\* input for one of them is absent or unset it fails with ErrMissingValue
\* for the first such type and does not invoke the method; otherwise it
\* invokes the method once with the inputs in Args order and returns what
\* the method returned: the same error, nil when the method returns nil,
\* and nil for a method without result.
C20_MethodCallOutcomes ==
    dobs.op = "Call" =>
        IF MissingArgs # {}
        THEN LET first == CHOOSE i \in MissingArgs : \A j \in MissingArgs : i <= j IN
             /\ dobs.err = Wrap(DepErrMissingValue, dobs.m.Args[first])
             /\ ~dobs.panic
             /\ dobs.invoked = <<>>
        ELSE /\ dobs.invoked = <<[i \in DOMAIN dobs.m.Args |-> dobs.inputs[dobs.m.Args[i]]]>>
             /\ ~dobs.panic
             /\ dobs.m.Method.out = <<"error">> => dobs.err = dobs.ret
             /\ dobs.m.Method.out = <<>> => dobs.err = NoErr

\* interval.Parse has returned.
Parsed == ivPc = "done" /\ ivResult.done

\* interval.Parse has returned an Interval and no error.
ParsedOk == Parsed /\ ivResult.err = NoErr

\* interval.Parse has failed: the zero Interval, and an error that matches
\* ErrInvalid.
ParsedInvalid ==
    /\ Parsed
    /\ ivResult.err.is = ErrInvalid.is
    /\ ivResult.ival = ZeroInterval

\* The first and the one-past-last integer that a notation with opener o,
\* bounds a and b and closer c denotes, as integers without a width.
Low(o, a) == IF o = "(" THEN a + 1 ELSE a
High(b, c) == IF c = "]" THEN b + 1 ELSE b

\* C21: for a text made of an opener, an integer a, a comma, an integer b
\* and a closer that denotes at least one integer, interval.Parse returns
\* the Interval with Start = a for "[" and a+1 for "(", and End = b+1 for
\* "]" and b for ")": Includes(v) holds exactly for the integers v that the
\* notation denotes.
C21_ExplicitBounds ==
    \A o \in {"[", "("}, c \in {"]", ")"}, a \in Ints, b \in Ints :
        (/\ Parsed
         /\ ivText = <<o>> \o Decimal(a) \o <<",">> \o Decimal(b) \o <<c>>
         /\ Low(o, a) < High(b, c)) =>
            /\ ivResult.err = NoErr
            /\ ivResult.ival = Interval(Low(o, a), High(b, c))
            /\ \A v \in Ints :
                  Includes(ivResult.ival, v) <=> (Low(o, a) <= v /\ v < High(b, c))

\* The whole range: [MinInt64, MaxInt64).
Unbounded == Interval(MinInt64, MaxInt64)

\* C22: an omitted start bound parses as Start = MinInt64 and an omitted end
\* bound as End = MaxInt64, with "[" or "(" and with "]" or ")" alike: an
\* omitted bound gets no +1; "[]", "()" and "[,]", and the same with the
\* other brackets, parse to [MinInt64, MaxInt64).
C22_OmittedBounds ==
    \A o \in {"[", "("}, c \in {"]", ")"} :
        /\ (Parsed /\ ivText \in {<<o, c>>, <<o, ",", c>>}) =>
              (ivResult.err = NoErr /\ ivResult.ival = Unbounded)
        /\ \A b \in Ints :
              (Parsed /\ ivText = <<o, ",">> \o Decimal(b) \o <<c>>) =>
                  /\ ParsedOk => ivResult.ival.Start = MinInt64
                  /\ (MinInt64 < High(b, c) /\ High(b, c) <= MaxInt64) =>
                        (ivResult.err = NoErr
                         /\ ivResult.ival = Interval(MinInt64, High(b, c)))
        /\ \A a \in Ints :
              (Parsed /\ ivText = <<o>> \o Decimal(a) \o <<",", c>>) =>
                  /\ ParsedOk => ivResult.ival.End = MaxInt64
                  /\ Low(o, a) < MaxInt64 =>
                        (ivResult.err = NoErr
                         /\ ivResult.ival = Interval(Low(o, a), MaxInt64))

\* "(,3]", parsed: the start is omitted after "(", the end is closed.
C22_Witness ==
    /\ ParsedOk
    /\ Len(ivText) = 4
    /\ ivText[1] = "("
    /\ ivText[2] = ","
    /\ ivText[4] = "]"
    /\ ivResult.ival.Start = MinInt64
    /\ ivResult.ival.End < MaxInt64

\* C23 as stated: a single integer n between an opener and a closer parses
\* to Start = n, End = n+1, whichever brackets are used.
C23_SingleInteger ==
    \A o \in {"[", "("}, c \in {"]", ")"}, n \in Ints :
        (Parsed /\ ivText = <<o>> \o Decimal(n) \o <<c>>) =>
            /\ ivResult.err = NoErr
            /\ ivResult.ival = Interval(n, n + 1)

\* C24 as stated: an Interval returned without error has End > Start, and a
\* text of an opener, a, a comma, b and a closer that denotes no integer
\* (start above end, or equal bounds with an open side) is rejected with
\* ErrInvalid.
C24_NeverEmpty ==
    /\ ParsedOk => ivResult.ival.End > ivResult.ival.Start
    /\ \A o \in {"[", "("}, c \in {"]", ")"}, a \in Ints, b \in Ints :
          (/\ Parsed
           /\ ivText = <<o>> \o Decimal(a) \o <<",">> \o Decimal(b) \o <<c>>
           /\ Low(o, a) >= High(b, c)) => ParsedInvalid

\* A number as the notation allows it: an optional sign and ASCII digits,
\* within the range of int64.
IsNumber(str) == ParseInt(str).err = NoErr

\* The grammar of the notation: an opener, then nothing, a number, or two
\* bounds either of which may be omitted with a comma between them, then a
\* closer, and nothing more.
WellFormed(text) ==
    /\ Len(text) >= 2
    /\ text[1] \in {"[", "("}
    /\ text[Len(text)] \in {"]", ")"}
    /\ LET body == SubSeq(text, 2, Len(text) - 1)
           commas == {i \in DOMAIN body : body[i] = ","}
       IN  \/ body = <<>>
           \/ commas = {} /\ IsNumber(body)
           \/ \E i \in commas :
                 /\ commas = {i}
                 /\ i = 1 \/ IsNumber(SubSeq(body, 1, i - 1))
                 /\ i = Len(body) \/ IsNumber(SubSeq(body, i + 1, Len(body)))

\* C25: a failure of interval.Parse comes with the zero Interval and an
\* error that matches ErrInvalid, and every text outside the grammar fails:
\* a text of fewer than two characters, a bad opener, a bad separator, a bad
\* closer, text after the closer, a text that ends before the closer, a
\* number outside the range of int64.
C25_FailuresAreInvalid ==
    Parsed =>
        /\ ivResult.err # NoErr => ParsedInvalid
        /\ ~WellFormed(ivText) => ParsedInvalid
        /\ ivResult.err = NoErr => ivErr = NoErr

\* A text with a number beyond int64, refused with the cause in the message.
C25_Witness ==
    /\ ParsedInvalid
    /\ ivResult.err.msg = ErrRange.is
    /\ ivText[1] = "["
    /\ Len(ivCalls) = Len(ivText)

\* parser.Parse has returned.
DriverReturned == ivPc \in {"returned", "done"} /\ ivState.kind # "none"

\* C26: parser.Parse calls State.Parse once for each character of the
\* text, in the order of the text and with the position of the character
\* in the text; at the first call that returns an error it stops and
\* returns that error, and no later character reaches the state; when no
\* call fails it returns nil after the last character.
C26_DriverOrder ==
    /\ Len(ivCalls) <= Len(ivText)
    /\ \A i \in DOMAIN ivCalls :
          ivCalls[i] = [pos |-> Offset(ivText, i), char |-> ivText[i]]
    /\ (DriverReturned /\ ivCalls # <<>> /\ ivErr = NoErr) => Len(ivCalls) = Len(ivText)
    /\ (DriverReturned /\ ivState.kind = "mock") =>
          IF ivState.failAt \in 1..Len(ivText)
          THEN Len(ivCalls) = ivState.failAt /\ ivErr = AnError
          ELSE Len(ivCalls) = Len(ivText) /\ ivErr = NoErr

\* A text of three characters, the first of them two bytes long, on a State
\* that failed at its second call: the third character was never passed.
C26_Witness ==
    /\ DriverReturned
    /\ ivState.kind = "mock"
    /\ Len(ivText) = 3
    /\ ivText[1] = ArabicThree
    /\ ivState.failAt = 2
    /\ Len(ivCalls) = 2
    /\ ivCalls[2].pos = 2
    /\ ivErr = AnError

\* The errors of the chain of err, from err itself down to the last error
\* it wraps.
RECURSIVE ErrorChain(_)
ErrorChain(err) ==
    IF err = NilError THEN <<>> ELSE <<err>> \o ErrorChain(err.Err)

\* The places of the chain that hold a CommandError.
CommandErrorsOf(err) ==
    {i \in DOMAIN ErrorChain(err) : ErrorChain(err)[i].kind = "CommandError"}

\* C27: ExitControl returns (1, false) for an error whose chain holds no
\* CommandError, and otherwise the Code and Usage of the first CommandError
\* of the chain, (0, true) included.
C27_ExitControl ==
    exPc = "done" =>
        /\ exOut.done
        /\ IF CommandErrorsOf(exErr) = {}
           THEN exOut.code = 1 /\ exOut.usage = FALSE
           ELSE LET first == CHOOSE i \in CommandErrorsOf(exErr) :
                                \A j \in CommandErrorsOf(exErr) : i <= j
                IN  /\ exOut.code = ErrorChain(exErr)[first].Code
                    /\ exOut.usage = ErrorChain(exErr)[first].Usage

\* An error that wraps a CommandError with Code 0 and Usage set, which
\* itself wraps a CommandError with Code 5: ExitControl returned (0, true).
C27_Witness ==
    /\ exPc = "done"
    /\ exErr = PlainError(CommandError(CommandError(NilError, 5, FALSE), 0, TRUE))
    /\ exOut.code = 0
    /\ exOut.usage = TRUE

\* The command under all the wrappers of c.
RECURSIVE Innermost(_)
Innermost(c) == IF c.kind = "Command" THEN c ELSE Innermost(c.Wrapped)

\* C28: a Hidden, Deprecated or Alias wrapper returns from GetSummary,
\* GetDescription, GetGroup, GetSubcommands and GetDefaults what the command
\* it wraps returns, which at any depth of wrappers is the field of the
\* Command under them, and its Unwrap returns the command that was wrapped.
C28_WrappersDelegate ==
    cmdArg # NoCommand =>
        /\ cmdObj.kind \in {"Hidden", "Deprecated", "Alias"}
        /\ Unwrap(cmdObj) = cmdArg
        /\ GetSummary(cmdObj) = GetSummary(cmdArg)
        /\ GetDescription(cmdObj) = GetDescription(cmdArg)
        /\ GetGroup(cmdObj) = GetGroup(cmdArg)
        /\ GetSubcommands(cmdObj) = GetSubcommands(cmdArg)
        /\ GetDefaults(cmdObj) = GetDefaults(cmdArg)
        /\ GetSummary(cmdObj) = Innermost(cmdObj).Summary
        /\ GetDescription(cmdObj) = Innermost(cmdObj).Description
        /\ GetGroup(cmdObj) = Innermost(cmdObj).Group
        /\ GetSubcommands(cmdObj) = Innermost(cmdObj).Subcommands
        /\ GetDefaults(cmdObj) = Innermost(cmdObj).Defaults

\* An Alias of a Deprecated command with an alternative, whose fields are
\* all set: two wrappers deep.
C28_Witness ==
    /\ cmdObj.kind = "Alias"
    /\ cmdArg.kind = "Deprecated"
    /\ cmdArg.Alternative = "alternative"
    /\ Unwrap(cmdArg) =
          Command("summary", "description", "group", "subcommands", "defaults")
    /\ GetGroup(cmdObj) = "group"

\* C29: a single Get makes one attempt: it calls at most one vivifier, at
\* most once; a type with a slot needs no call; a type with a vivifier of
\* its own has that vivifier called and, when it fails, its error is what
\* Get returns, with no call of the fallback and no second call.
C29_SingleAttempt ==
    obs.op = "Get" =>
        /\ Len(obs.calls) <= 1
        /\ Has(obs.pre.Objects, obs.typ) => obs.calls = <<>>
        /\ (~Has(obs.pre.Objects, obs.typ) /\ Has(obs.pre.Vivifiers, obs.typ)) =>
              /\ Len(obs.calls) = 1
              /\ obs.calls[1].viv = obs.pre.Vivifiers.m[obs.typ]
              /\ obs.calls[1].typ = obs.typ
              /\ obs.calls[1].out.err # NoErr =>
                    /\ obs.err = obs.calls[1].out.err
                    /\ ~IsValid(obs.val)
                    /\ RegistryUnchanged

\* A Get of a type whose own vivifier failed, on an Injector that has a
\* fallback as well: one call, of the vivifier of the type.
C29_Witness ==
    /\ obs.op = "Get"
    /\ ~Has(obs.pre.Objects, obs.typ)
    /\ Has(obs.pre.Vivifiers, obs.typ)
    /\ obs.pre.Vivifiers.m[obs.typ] # FallbackId
    /\ obs.pre.Fallback = FallbackId
    /\ Len(obs.calls) = 1
    /\ obs.calls[1].out.err = AnError
    /\ obs.err = AnError

\* An Add, or an AddInterface with an interface token, of a value, for a
\* type whose slot holds a value that a Get obtained from a vivifier.
AddsToVivifiedSlot ==
    /\ obs.op \in {"Add", "AddInterface"}
    /\ IsValid(obs.arg)
    /\ obs.op = "AddInterface" => Kind(obs.typ) = "Interface"
    /\ obs.typ \in DOMAIN obs.pre.vivified
    /\ Has(obs.pre.Objects, obs.typ)
    /\ obs.pre.Objects.m[obs.typ] = obs.pre.vivified[obs.typ]

\* C30 as stated: once a Get has put a vivified value in the slot of T, an
\* Add or AddInterface for T fails with ErrDuplicate and the vivified value
\* stays in the slot.
C30_VivifiedAlwaysDuplicate ==
    AddsToVivifiedSlot =>
        /\ obs.err.is = "ErrDuplicate"
        /\ Objects.m[obs.typ] = obs.pre.vivified[obs.typ]

\* C30 as amended: once a Get has put a vivified value in the slot of T, an
\* Add or AddInterface of a value for T always fails and the vivified value
\* stays in the slot, in a registry that is as it was; the error is
\* ErrDuplicate when the value is assignable to T (as it always is for Add)
\* and ErrBadType when AddInterface is given a value that does not
\* implement T.
C30_VivifiedSlotProtected ==
    AddsToVivifiedSlot =>
        /\ ~obs.panic
        /\ obs.err.is = IF AssignableTo(obs.arg.typ, obs.typ)
                        THEN "ErrDuplicate"
                        ELSE "ErrBadType"
        /\ obs.op = "Add" => obs.err.is = "ErrDuplicate"
        /\ Has(Objects, obs.typ)
        /\ Objects.m[obs.typ] = obs.pre.vivified[obs.typ]
        /\ RegistryUnchanged

\* An Add of a value of a type whose slot holds another value, vivified by
\* an earlier Get: rejected as a duplicate.
C30_Witness ==
    /\ obs.op = "Add"
    /\ AddsToVivifiedSlot
    /\ obs.err.is = "ErrDuplicate"
    /\ obs.arg # obs.pre.vivified[obs.typ]
    /\ Objects.m[obs.typ] = obs.pre.vivified[obs.typ]

\* The k-th Vivify call of the observed operation returned, without error,
\* a value that cannot be assigned to the type it was asked for.
VivifiedUnassignable(k) ==
    /\ obs.calls[k].out.err = NoErr
    /\ IsValid(Reflect(obs.calls[k].out.obj))
    /\ ~AssignableTo(Reflect(obs.calls[k].out.obj).typ, obs.calls[k].typ)

\* C31: when a vivifier returns, without error, a value that cannot be
\* assigned to the requested type, the Get fails with ErrBadType and makes
\* no slot for the type, it is the last Get of the operation, and a Call or
\* CallMethod that needed the type does not invoke its target.
C31_UnassignableVivified ==
    \A k \in DOMAIN obs.calls :
        VivifiedUnassignable(k) =>
            /\ obs.err = Wrap(ErrBadType, obs.calls[k].typ)
            /\ ~obs.panic
            /\ ~IsValid(obs.val)
            /\ k = Len(obs.calls)
            /\ ~Has(Objects, obs.calls[k].typ)
            /\ obs.invoked = <<>>
            /\ obs.op = "Get" => RegistryUnchanged

\* A CallMethod on a method of two parameters whose second parameter a
\* vivifier answered with a value of another type: the target did not run.
C31_Witness ==
    /\ obs.op = "CallMethod"
    /\ Len(obs.meth.in) = 2
    /\ Len(obs.gets) = 2
    /\ obs.calls # <<>>
    /\ VivifiedUnassignable(Len(obs.calls))
    /\ obs.calls[Len(obs.calls)].typ = obs.meth.in[2]
    /\ obs.err.is = "ErrBadType"
    /\ obs.invoked = <<>>

\* C32: every Get ends by returning a valid value or an error, whatever the
\* vivifier returned, a nil value with no error included; and no slot of
\* the registry ever holds an invalid value.
C32_GetAlwaysReturns ==
    /\ obs.op = "Get" =>
          /\ ~obs.panic
          /\ IsValid(obs.val) \/ obs.err # NoErr
    /\ \A t \in DOMAIN Objects.m : IsValid(Objects.m[t])

\* The registrations a caller can make: Add(obj), AddInterface(token, obj)
\* and AddVivifier(token, viv).
Registrations ==
    {[op |-> "Add", token |-> NilToken, obj |-> o, viv |-> NoVivifier] : o \in Objs}
    \cup {[op |-> "AddInterface", token |-> t, obj |-> o, viv |-> NoVivifier] :
             t \in Tokens, o \in Objs}
    \cup {[op |-> "AddVivifier", token |-> t, obj |-> NilObj, viv |-> v] :
             t \in VivifierTokens, v \in VivIds \cup {NoVivifier}}

\* The registration q applied to the Injector inj.
Register(inj, q) ==
    CASE q.op = "Add" -> Add(inj, q.obj)
      [] q.op = "AddInterface" -> AddInterface(inj, q.token, q.obj)
      [] q.op = "AddVivifier" -> AddVivifier(inj, q.token, q.viv)

\* The type whose slot, or whose vivifier, the registration q is for.
Target(q) ==
    CASE q.op = "Add" -> Reflect(q.obj).typ
      [] q.op = "AddInterface" -> InterfaceType(q.token)
      [] q.op = "AddVivifier" -> VivifierType(q.token)

\* Two registrations of values, or two of vivifiers, for the same type.
SameTarget(p, q) ==
    /\ (p.op = "AddVivifier") = (q.op = "AddVivifier")
    /\ Target(p) = Target(q)

Succeeds(inj, q) ==
    LET r == Register(inj, q) IN r.err = NoErr /\ ~r.panic

\* The observed operation as a registration.
ObservedRegistration ==
    [op |-> obs.op, token |-> obs.token, obj |-> obs.obj, viv |-> obs.viv]

RegistrationSucceeded ==
    /\ obs.op \in {"Add", "AddInterface", "AddVivifier"}
    /\ obs.err = NoErr
    /\ ~obs.panic

\* C33: registrations that are not for the same slot and not for the same
\* vivifier type can be made in any order: when a registration has
\* succeeded, every registration for another target that would have
\* succeeded in its place succeeds after it as well, the two succeed in the
\* other order too, and both orders leave the same registry; a value and a
\* vivifier for one type are two targets.
C33_OrderIrrelevant ==
    RegistrationSucceeded =>
        /\ ObservedRegistration \in Registrations
        /\ Inj = Register(PreInj, ObservedRegistration).inj
        /\ \A q \in Registrations :
              (~SameTarget(q, ObservedRegistration) /\ Succeeds(PreInj, q)) =>
                  LET after == Register(Inj, q)
                      before == Register(PreInj, q)
                      other == Register(before.inj, ObservedRegistration)
                  IN  /\ after.err = NoErr /\ ~after.panic
                      /\ other.err = NoErr /\ ~other.panic
                      /\ after.inj = other.inj

\* A vivifier registered for a type that already had a value in its slot,
\* on a registry to which an AddInterface for another type could be applied
\* before or after it.
C33_Witness ==
    /\ RegistrationSucceeded
    /\ obs.op = "AddVivifier"
    /\ Has(Objects, obs.typ)
    /\ Has(Vivifiers, obs.typ)
    /\ \E q \in Registrations :
          /\ q.op = "AddInterface"
          /\ ~SameTarget(q, ObservedRegistration)
          /\ Succeeds(PreInj, q)
          /\ Register(Inj, q).inj # Inj

(***************************************************************************)
(* The state machine with a vivifier that breaks its contract: while it    *)
(* runs for a type it makes a call on the Injector it was handed, an Add   *)
(* or an AddInterface for that type, and then returns.                     *)
(***************************************************************************)

\* The calls a vivifier that runs for typ can make to fill the slot of typ,
\* with an object of its own making.
ReentrantCalls(typ) ==
    {q \in Registrations :
        q.op # "AddVivifier" /\ Target(q) = typ /\ q.obj.form = "plain"}

\* Vivify on a registry that is taken as it was before the vivifier ran.
VivifyReentrantStale(inj, viv, typ, out, q) ==
    LET during == Register(inj, q) IN
    IF during.panic
    THEN Result(during.inj, ZeroValue, NoErr, TRUE, <<VivCall(viv, typ, out, ZeroValue)>>)
    ELSE IF out.err # NoErr
    THEN Result(during.inj, ZeroValue, out.err, FALSE,
                <<VivCall(viv, typ, out, ZeroValue)>>)
    ELSE LET r == add(inj, typ, out.obj) IN
         Result(IF r.err = NoErr /\ ~r.panic THEN r.inj ELSE during.inj,
                r.val, r.err, r.panic, <<VivCall(viv, typ, out, r.val)>>)

\* obj, err := viv.Vivify(i, typ), during which the vivifier makes the call
\* q on i; if err != nil { return reflect.Value{}, err }; return i.add(typ, obj)
VivifyReentrant(inj, viv, typ, out, q) ==
    LET during == Register(inj, q) IN
    IF during.panic
    THEN Result(during.inj, ZeroValue, NoErr, TRUE, <<VivCall(viv, typ, out, ZeroValue)>>)
    ELSE IF out.err # NoErr
    THEN Result(during.inj, ZeroValue, out.err, FALSE,
                <<VivCall(viv, typ, out, ZeroValue)>>)
    ELSE LET r == add(during.inj, typ, out.obj) IN
         Result(r.inj, r.val, r.err, r.panic, <<VivCall(viv, typ, out, r.val)>>)

\* Get with such a vivifier.
GetReentrant(inj, typ, out, q) ==
    IF Has(inj.Objects, typ)
    THEN Result(inj, inj.Objects.m[typ], NoErr, FALSE, <<>>)
    ELSE IF Has(inj.Vivifiers, typ)
    THEN VivifyReentrant(inj, inj.Vivifiers.m[typ], typ, out, q)
    ELSE IF inj.Fallback # NoVivifier
    THEN VivifyReentrant(inj, inj.Fallback, typ, out, q)
    ELSE Result(inj, ZeroValue, Wrap(ErrMissingValue, typ), FALSE, <<>>)

\* A Get that reaches a vivifier of this kind.
DoGetReentrant ==
    /\ Running
    /\ \E typ \in Types, out \in Outcomes :
          /\ ~Has(Objects, typ)
          /\ Has(Vivifiers, typ) \/ Fallback # NoVivifier
          /\ \E q \in ReentrantCalls(typ) :
                Finish([NoObs EXCEPT !.op = "GetReentrant", !.typ = typ,
                                     !.name = q.op, !.token = q.token,
                                     !.obj = q.obj, !.arg = Reflect(q.obj)],
                       GetReentrant(Inj, typ, out, q), <<typ>>, <<>>)

ReNext ==
    \/ DoAdd
    \/ DoAddInterface
    \/ DoAddVivifier
    \/ DoGet
    \/ DoGetReentrant

ReSpec == Init /\ [][ReNext]_vars

\* The call the vivifier of the observed Get made while it ran.
ReentrantCall ==
    [op |-> obs.name, token |-> obs.token, obj |-> obs.obj, viv |-> NoVivifier]

\* The observed Get reached a vivifier which, while it ran, filled the slot
\* of the type it ran for.
SlotMadeDuringVivify ==
    /\ obs.op = "GetReentrant"
    /\ ~Has(obs.pre.Objects, obs.typ)
    /\ Succeeds(PreInj, ReentrantCall)

\* C34 as stated: when the slot of T is filled by a call the vivifier for T
\* makes while it runs, the Get that called the vivifier fails with
\* ErrDuplicate when the vivifier returns a value, and the slot keeps the
\* value put there first.
C34_ReentrantAlwaysDuplicate ==
    (SlotMadeDuringVivify /\ obs.calls[1].out.err = NoErr
                          /\ IsValid(Reflect(obs.calls[1].out.obj))) =>
        /\ obs.err.is = "ErrDuplicate"
        /\ Objects.m[obs.typ] = obs.arg

\* C34 as amended: when the slot of T is filled by a call the vivifier for T
\* makes while it runs, the Get that called the vivifier never replaces the
\* slot, which keeps the value put there first whatever the vivifier
\* returns; the Get returns no value, and fails with the vivifier's error
\* when it returned one, with ErrDuplicate when it returned a value that is
\* assignable to T, and with ErrBadType when it returned a value that is
\* not.
C34_ReentrantSlotKept ==
    SlotMadeDuringVivify =>
        /\ Len(obs.calls) = 1
        /\ Has(Objects, obs.typ)
        /\ Objects.m[obs.typ] = obs.arg
        /\ Objects = Register(PreInj, ReentrantCall).inj.Objects
        /\ ~IsValid(obs.val)
        /\ LET out == obs.calls[1].out IN
           IF out.err # NoErr
           THEN obs.err = out.err /\ ~obs.panic
           ELSE IF ~IsValid(Reflect(out.obj))
           THEN obs.panic
           ELSE /\ ~obs.panic
                /\ obs.err = IF AssignableTo(Reflect(out.obj).typ, obs.typ)
                             THEN Wrap(ErrDuplicate, obs.typ)
                             ELSE Wrap(ErrBadType, obs.typ)

\* A vivifier for an interface type that registered one value for the type
\* with AddInterface while it ran and returned another: the Get failed as
\* a duplicate and the slot holds the first.
C34_Witness ==
    /\ SlotMadeDuringVivify
    /\ obs.name = "AddInterface"
    /\ obs.calls[1].out.err = NoErr
    /\ IsValid(Reflect(obs.calls[1].out.obj))
    /\ Reflect(obs.calls[1].out.obj) # obs.arg
    /\ obs.err.is = "ErrDuplicate"
    /\ Objects.m[obs.typ] = obs.arg

\* The Method depinject's New makes of the method of the observed call.
NewOfObserved == New("methods", obs.meth.name)

\* The parameter types of the observed method.
ParamTypes == {obs.meth.in[i] : i \in DOMAIN obs.meth.in}

\* The values the registry held for the parameter types before the call,
\* as the inputs of Method.Call.
CachedInputs ==
    [t \in {u \in ParamTypes : Has(obs.pre.Objects, u)} |-> obs.pre.Objects.m[t]]

\* CallMethod was observed on a method that New accepts.
CallOfAccepted ==
    /\ obs.op = "CallMethod"
    /\ obs.meth \in Methods
    /\ NewOfObserved.err = NoErr

\* The parameter types without a value, with no vivifier to make one.
Unobtainable ==
    {t \in ParamTypes :
        /\ ~Has(obs.pre.Objects, t)
        /\ ~Has(obs.pre.Vivifiers, t)
        /\ obs.pre.Fallback = NoVivifier}

\* C35: for a method that New accepts and a registry that holds a value for
\* each of its parameter types, CallMethod and Method.Call with those values
\* as inputs invoke the method with the same arguments and end the same
\* way, for the same return of the method; when one parameter type has no
\* value and nothing to vivify it while the others have theirs, both fail
\* with their own MissingValue error for that type and do not invoke the
\* method.
C35_CallMethodMatchesMethodCall ==
    CallOfAccepted =>
        LET d == MethodCall(NewOfObserved.m, CachedInputs, obs.ret) IN
        /\ DOMAIN CachedInputs = ParamTypes =>
              /\ obs.calls = <<>>
              /\ d.invoked = obs.invoked
              /\ Len(obs.invoked) = 1
              /\ d.panic = obs.panic
              /\ d.err = obs.err
              /\ d.ret = obs.ret
              /\ RegistryUnchanged
        /\ \A t \in Unobtainable :
              ParamTypes \ DOMAIN CachedInputs = {t} =>
                  /\ obs.err = Wrap(ErrMissingValue, t)
                  /\ d.err = Wrap(DepErrMissingValue, t)
                  /\ ~obs.panic /\ ~d.panic
                  /\ obs.invoked = <<>>
                  /\ d.invoked = <<>>

\* BasicErr called on a registry with a value for each of its two
\* parameters, and returning an error: both calls hand it the two values
\* in the order of its parameters and return the error.
C35_Witness ==
    /\ CallOfAccepted
    /\ obs.meth.name = "BasicErr"
    /\ DOMAIN CachedInputs = ParamTypes
    /\ obs.ret = AnError
    /\ obs.err = AnError
    /\ obs.invoked = <<<<obs.pre.Objects.m["string"],
                         obs.pre.Objects.m["iTrialInterface"]>>>>
    /\ MethodCall(NewOfObserved.m, CachedInputs, obs.ret).invoked = obs.invoked

\* The receiver and the argument of the last Merge, as they are now.
Merged == IF mgPre.into = "d" THEN mgD ELSE mgOther
MergedFrom == IF mgPre.into = "d" THEN mgOther ELSE mgD

\* C36: after d.Merge(other) the keys of d are the keys of both, every key
\* d had keeps its value, every key that was added has the unset value
\* whatever value other holds for it, and other is as it was; merging the
\* same Deps once more changes nothing.
C36_Merge ==
    mgPre.done =>
        /\ DOMAIN Merged = DOMAIN mgPre.d \cup DOMAIN mgPre.other
        /\ \A t \in DOMAIN mgPre.d : Merged[t] = mgPre.d[t]
        /\ \A t \in DOMAIN mgPre.other \ DOMAIN mgPre.d : Merged[t] = ZeroValue
        /\ MergedFrom = mgPre.other
        /\ Merge(Merged, MergedFrom) = Merged

\* A Merge into a Deps with a value for string of a Deps with a value for
\* trialInterface and another value for string: the key was added unset
\* and the value for string was kept.
C36_Witness ==
    /\ mgPre.done
    /\ mgPre.into = "d"
    /\ DOMAIN mgPre.d = {"string"}
    /\ IsValid(mgPre.d["string"])
    /\ DOMAIN mgPre.other = {"string", "trialInterface"}
    /\ ~IsValid(mgPre.other["string"])
    /\ IsValid(mgPre.other["trialInterface"])
    /\ mgD = [t \in {"string", "trialInterface"} |->
                 IF t = "string" THEN mgPre.d["string"] ELSE ZeroValue]

\* The parser states in the order of their declaration.
StateRank ==
    [stateInit |-> 0, stateStart |-> 1, stateSep |-> 2, stateEnd |-> 3,
     stateClose |-> 4, stateDone |-> 5]

\* One step of interval.Parse, as far as C37 speaks of it.
ForwardStep ==
    /\ (ivState.kind = "interval" /\ ivState'.kind = "interval") =>
          /\ StateRank[ivState'.State] >= StateRank[ivState.State]
          /\ (ivState.State = "stateDone" /\ ivCalls' # ivCalls) =>
                /\ ivErr'.is = ErrInvalid.is
                /\ ivPc' = "returned"
    /\ (ivState'.kind = "interval" /\ ivResult'.done /\ ivResult'.err = NoErr) =>
          /\ ivState'.State = "stateDone"
          /\ Len(ivCalls') = Len(ivText')
          /\ ivErr' = NoErr

\* C37: the state of the interval parser only moves forward in the order
\* Init, Start, Sep, End, Close, Done, and never back; a character that
\* arrives in state Done is an error; and Parse succeeds only if the state
\* is Done when the last character of the text has been taken.
C37_ForwardOnly == [][ForwardStep]_vars

\* A text with one character after the closer: the parser was in state
\* Done when the character arrived, and Parse failed.
C37_Witness ==
    /\ Parsed
    /\ ivState.kind = "interval"
    /\ ivState.State = "stateDone"
    /\ Len(ivCalls) = Len(ivText)
    /\ Len(ivText) >= 3
    /\ ivText[Len(ivText) - 1] \in {"]", ")"}
    /\ ivErr.is = ErrInvalid.is
    /\ ivResult.err.is = ErrInvalid.is

\* The text begins with the opener o and the explicit start value a.
StartsWith(o, a) ==
    LET head == <<o>> \o Decimal(a) IN
    /\ Len(ivText) > Len(head)
    /\ SubSeq(ivText, 1, Len(head)) = head
    /\ ~IsDigit(ivText[Len(head) + 1])

\* C38: for every accepted text with an explicit start value a, the
\* returned interval includes no value below a, and not a itself when the
\* text is of the two-bound form with the opener "(", at the limits of
\* int64 as elsewhere: the +1 of canonicalisation does not wrap around.
C38_NoWrapAround ==
    \A o \in {"[", "("}, a \in Ints :
        (ParsedOk /\ StartsWith(o, a)) =>
            \A v \in Ints :
                Includes(ivResult.ival, v) =>
                    /\ v >= a
                    /\ (o = "(" /\ ivText[Len(Decimal(a)) + 2] = ",") => v > a

\* C39: for every Interval iv with Start < End, interval.Parse of
\* iv.String() succeeds and returns iv; String writes an interval with
\* End <= Start+1 as "[Start]" and any other as "[Start,End)".
C39_StringRoundTrip ==
    (ivFrom.given /\ ivPc # "String") =>
        LET iv == ivFrom.ival IN
        /\ iv.Start < MaxInt64 =>
              ivText = IF iv.End <= iv.Start + 1
                       THEN <<"[">> \o Decimal(iv.Start) \o <<"]">>
                       ELSE <<"[">> \o Decimal(iv.Start) \o <<",">>
                                \o Decimal(iv.End) \o <<")">>
        /\ (iv.Start < iv.End /\ Parsed) =>
              /\ ivResult.err = NoErr
              /\ ivResult.ival = iv

\* The widest interval, from MinInt64 to MaxInt64, written as a text of two
\* bounds and parsed back to itself.
C39_Witness ==
    /\ ivFrom.given
    /\ ivFrom.ival = Interval(MinInt64, MaxInt64)
    /\ Parsed
    /\ ivText[Len(ivText)] = ")"
    /\ ivResult.err = NoErr
    /\ ivResult.ival = ivFrom.ival

====
